---- MODULE Spec2Model ----
(***************************************************************************)
(* pypixelcolor: command payload encoding and windowed transport plans.    *)
(*                                                                         *)
(* The module models src/pypixelcolor/commands/send_text.py and            *)
(* src/pypixelcolor/commands/send_image.py: the bit-order reversal pass,   *)
(* the row packer, the item blocks, the payload of send_text, and the      *)
(* windowing loops of send_text and send_image that turn a payload into a  *)
(* SendPlan.  Bytes are the integers 0..255 and a bytes object is a        *)
(* sequence of them.  A 32-bit unsigned value is kept as its two 16-bit    *)
(* halves [hi, lo], because TLC's integers are 32-bit signed.              *)
(***************************************************************************)
EXTENDS Integers, Sequences, FiniteSets, TLC

VARIABLES
    pc,            \* position of the running call: idle, framing, done, raised
    cmd,           \* the command being run: none, send_text, send_image
    call,          \* the arguments of the running send_text call
    items,         \* send_text: the item blocks appended to characters_bytes
    num_chars,     \* send_text: the declared item count
    payload,       \* data_payload (send_text) / payload (send_image)
    payload_size,  \* len(payload), as computed before the loop
    crc,           \* crc32(payload), as computed before the loop
    is_gif,        \* send_image: the file is a .gif
    pos,           \* windowing loop: offset of the next slice
    window_index,  \* windowing loop: index of the next window
    windows,       \* windowing loop: the windows built so far
    plan,          \* the returned SendPlan ([name, windows]); NoPlan before
    error,         \* the exception raised by the call, "" when none
    n,             \* _reverse_bits_16: the argument
    rev,           \* _reverse_bits_16: the returned value, -1 before the call
    rpc,           \* _reverse_bits_16: start, done
    fn,            \* a helper called on its own: its name, "none" otherwise
    arg,           \* the helper's arguments
    ret,           \* what the helper returned or raised; Pending before
    board,         \* scoreboard: the canvas, pixel -> color written
    ink,           \* scoreboard: the pixels written for names, sets and score
    drawn,         \* scoreboard: the number of glyphs drawn so far
    commands,      \* run_commands: the list of command names
    cmd_index,     \* run_commands: index of the command the loop is at
    cli,           \* run_commands: off, start, loop, awaiting, done, raised
    session,       \* run_commands: what the session was asked to execute
    logged         \* run_commands: the lines logged

planVars == <<pc, cmd, call, items, num_chars, payload, payload_size, crc,
              is_gif, pos, window_index, windows, plan, error>>
revVars == <<n, rev, rpc>>
fnVars == <<fn, arg, ret>>
sbVars == <<board, ink, drawn>>
cliVars == <<commands, cmd_index, cli, session, logged>>
vars == <<pc, cmd, call, items, num_chars, payload, payload_size, crc,
          is_gif, pos, window_index, windows, plan, error, n, rev, rpc,
          fn, arg, ret, board, ink, drawn,
          commands, cmd_index, cli, session, logged>>

---------------------------------------------------------------------------
(* Python's integer operators on the widths the code uses them at.         *)

RECURSIVE AndBits(_, _, _)
AndBits(a, b, k) ==
    IF k = 0 THEN 0
    ELSE ((a % 2) * (b % 2)) + 2 * AndBits(a \div 2, b \div 2, k - 1)

RECURSIVE OrBits(_, _, _)
OrBits(a, b, k) ==
    IF k = 0 THEN 0
    ELSE (IF (a % 2) + (b % 2) > 0 THEN 1 ELSE 0)
         + 2 * OrBits(a \div 2, b \div 2, k - 1)

RECURSIVE XorBits(_, _, _)
XorBits(a, b, k) ==
    IF k = 0 THEN 0
    ELSE ((a + b) % 2) + 2 * XorBits(a \div 2, b \div 2, k - 1)

\* a & b, a | b, a ^ b on bytes, tabulated once
And8 == [a \in 0..255 |-> [b \in 0..255 |-> AndBits(a, b, 8)]]
Or8 == [a \in 0..255 |-> [b \in 0..255 |-> OrBits(a, b, 8)]]
Xor8 == [a \in 0..255 |-> [b \in 0..255 |-> XorBits(a, b, 8)]]

\* a & b, a | b, a ^ b for 0 <= a, b < 2^24 (three bytes each)
BitAnd(a, b) ==
      And8[a % 256][b % 256]
    + 256 * And8[(a \div 256) % 256][(b \div 256) % 256]
    + 65536 * And8[(a \div 65536) % 256][(b \div 65536) % 256]

BitOr(a, b) ==
      Or8[a % 256][b % 256]
    + 256 * Or8[(a \div 256) % 256][(b \div 256) % 256]
    + 65536 * Or8[(a \div 65536) % 256][(b \div 65536) % 256]

Xor16(a, b) == Xor8[a % 256][b % 256] + 256 * Xor8[a \div 256][b \div 256]

Shr(a, k) == a \div (2 ^ k)
Shl(a, k) == a * (2 ^ k)

\* Bit i of a.
Bit(a, i) == (a \div (2 ^ i)) % 2

---------------------------------------------------------------------------
(* send_text.py: helper functions for byte-level transformations.          *)

\* A plausible slip: the last stage swaps with the pair masks again.
_reverse_bits_16_NoBitSwap(x) ==
    LET n1 == BitOr(Shr(BitAnd(x, 65280), 8), Shl(BitAnd(x, 255), 8))
        n2 == BitOr(Shr(BitAnd(n1, 61680), 4), Shl(BitAnd(n1, 3855), 4))
        n3 == BitOr(Shr(BitAnd(n2, 52428), 2), Shl(BitAnd(n2, 13107), 2))
    IN  BitOr(Shr(BitAnd(n3, 52428), 1), Shl(BitAnd(n3, 13107), 1))

\* def _reverse_bits_16(n): the four swap-mask stages
\*   0xFF00 = 65280, 0x00FF = 255, 0xF0F0 = 61680, 0x0F0F = 3855,
\*   0xCCCC = 52428, 0x3333 = 13107, 0xAAAA = 43690, 0x5555 = 21845
_reverse_bits_16(x) ==
    LET n1 == BitOr(Shr(BitAnd(x, 65280), 8), Shl(BitAnd(x, 255), 8))
        n2 == BitOr(Shr(BitAnd(n1, 61680), 4), Shl(BitAnd(n1, 3855), 4))
        n3 == BitOr(Shr(BitAnd(n2, 52428), 2), Shl(BitAnd(n2, 13107), 2))
    IN  BitOr(Shr(BitAnd(n3, 43690), 1), Shl(BitAnd(n3, 21845), 1))

Ok(v) == [err |-> "", val |-> v]
Raise(e) == [err |-> e, val |-> <<>>]

\* A plausible slip: the reversed value is written back little-endian, as
\* it was read.
_logic_reverse_bits_order_bytes_LE(data) ==
    IF Len(data) % 2 # 0 THEN [err |-> "ValueError", val |-> <<>>]
    ELSE [err |-> "",
          val |-> [i \in 1..Len(data) |->
                    LET k == (i - 1) \div 2
                        value == data[2 * k + 1] + 256 * data[2 * k + 2]
                        r == _reverse_bits_16(value)
                    IN  IF i % 2 = 1 THEN r % 256 ELSE r \div 256]]

\* def _logic_reverse_bits_order_bytes(data): each 2-byte chunk is read
\* little-endian, bit-reversed and written back big-endian; an odd length
\* raises ValueError.
_logic_reverse_bits_order_bytes(data) ==
    IF Len(data) % 2 # 0 THEN Raise("ValueError")
    ELSE Ok([i \in 1..Len(data) |->
              LET k == (i - 1) \div 2
                  value == data[2 * k + 1] + 256 * data[2 * k + 2]
                  r == _reverse_bits_16(value)
              IN  IF i % 2 = 1 THEN r \div 256 ELSE r % 256])

\* bytes(): the concatenation of a list of bytes objects
RECURSIVE ConcatRange(_, _, _)
ConcatRange(bs, lo, hi) ==
    IF lo > hi THEN <<>>
    ELSE IF lo = hi THEN bs[lo]
    ELSE LET mid == (lo + hi) \div 2
         IN  ConcatRange(bs, lo, mid) \o ConcatRange(bs, mid + 1, hi)

Concat(bs) == ConcatRange(bs, 1, Len(bs))

\* list.reverse() / text[::-1]
\* a reversal that leaves the order as it was
Reverse_Keep(s) == s

\* text[::-1] and list.reverse()
Reverse(s) == [i \in 1..Len(s) |-> s[Len(s) + 1 - i]]

\* int.to_bytes(k, byteorder="little") for 0 <= v < 2^31; OverflowError when
\* v does not fit in k bytes
ToBytesLE(v, k) == [i \in 1..k |-> (v \div (256 ^ (i - 1))) % 256]
FitsBytes(v, k) == k >= 4 \/ v < 256 ^ k

---------------------------------------------------------------------------
(* send_text.py: the row packer.  An image is [width, height, rows] with   *)
(* rows[y + 1][x + 1] the 'L' pixel at (x, y).                             *)

\* the inner loop of _encode_char_img over x: line_value collects columns
\* 0..15 (bit 15 - x), line_value_2 columns 16..31 (bit 31 - x)
RECURSIVE LineValue(_, _, _)
LineValue(row, x, char_width) ==
    IF x >= char_width \/ x >= 16 THEN 0
    ELSE LET rest == LineValue(row, x + 1, char_width)
         IN  IF row[x + 1] > 0 THEN BitOr(rest, 2 ^ (15 - x)) ELSE rest

RECURSIVE LineValue2(_, _, _)
LineValue2(row, x, char_width) ==
    IF x >= char_width THEN 0
    ELSE LET rest == LineValue2(row, x + 1, char_width)
         IN  IF row[x + 1] > 0 THEN BitOr(rest, 2 ^ (31 - x)) ELSE rest

\* A plausible slip: the narrow word keeps its low byte instead of the high.
PackRow_LowByte(row, char_width) ==
    LET line_value == LineValue(row, 0, char_width)
        line_value_2 == LineValue2(row, 16, char_width)
    IN  IF char_width <= 8 THEN << line_value % 256 >>
        ELSE IF char_width <= 16 THEN << line_value \div 256, line_value % 256 >>
        ELSE IF char_width <= 24
             THEN << line_value \div 256, line_value % 256, line_value_2 \div 256 >>
        ELSE << line_value \div 256, line_value % 256,
                line_value_2 \div 256, line_value_2 % 256 >>

\* one row of _encode_char_img: the big-endian bytes of the row's word;
\* for char_width > 16 the word is (line_value << 16) | line_value_2
PackRow(row, char_width) ==
    LET line_value == LineValue(row, 0, char_width)
        line_value_2 == LineValue2(row, 16, char_width)
    IN  IF char_width <= 8 THEN << Shr(line_value, 8) >>
        ELSE IF char_width <= 16 THEN << line_value \div 256, line_value % 256 >>
        ELSE IF char_width <= 24
             THEN << line_value \div 256, line_value % 256, line_value_2 \div 256 >>
        ELSE << line_value \div 256, line_value % 256,
                line_value_2 \div 256, line_value_2 % 256 >>

\* def _encode_char_img(img): the rows packed one after another
_encode_char_img(img) ==
    Concat([y \in 1..img.height |-> PackRow(img.rows[y], img.width)])

\* A plausible slip: the narrower last chunk is dropped.
_split_image_into_chunks_Whole(img, chunk_width) ==
    LET count == img.width \div chunk_width
    IN  [c \in 1..count |->
          [width |-> chunk_width, height |-> img.height,
           rows |-> [y \in 1..img.height |->
                      [x \in 1..chunk_width |->
                        img.rows[y][(c - 1) * chunk_width + x]]]]]

\* def _split_image_into_chunks(img, chunk_width): vertical chunks, the last
\* one pasted on the left of a black image of the full chunk width
_split_image_into_chunks(img, chunk_width) ==
    LET count == (img.width + chunk_width - 1) \div chunk_width
    IN  [c \in 1..count |->
          LET x0 == (c - 1) * chunk_width
              actual_width == IF chunk_width < img.width - x0
                              THEN chunk_width ELSE img.width - x0
          IN  [width |-> chunk_width, height |-> img.height,
               rows |-> [y \in 1..img.height |->
                          [x \in 1..chunk_width |->
                            IF x <= actual_width THEN img.rows[y][x0 + x] ELSE 0]]]]

\* def _encode_character_block(char_bytes, text_size, color_bytes, is_emoji)
_encode_character_block(char_bytes, text_size, color_bytes, isEmoji) ==
    IF text_size = 32
    THEN IF isEmoji
         THEN <<9>> \o ToBytesLE(Len(char_bytes), 2) \o <<0>> \o char_bytes
         ELSE <<2>> \o color_bytes \o char_bytes
    ELSE IF isEmoji
         THEN <<8>> \o ToBytesLE(Len(char_bytes), 2) \o <<0>> \o char_bytes
         ELSE <<0>> \o color_bytes \o char_bytes

---------------------------------------------------------------------------
(* The collaborators of send_text: the emoji table, the emoji asset        *)
(* provider and the font rasterizer (PIL).  What they answer is fixed per  *)
(* character, so choosing the text chooses their answers:                  *)
(*   "A"  a plain character, ink 5 pixels wide                             *)
(*   "W"  a plain character, ink 20 pixels wide                            *)
(*   "Q"  a plain character whose rasterization raises                     *)
(*   "E"  an emoji the provider resolves (a JFIF JPEG)                     *)
(*   "X"  an emoji the provider fails on (None, or an exception)           *)
(* An Optional value is the empty set (None) or a singleton.               *)

PlainChars == {"A", "W", "Q"}
EmojiChars == {"E", "X"}
Chars == PlainChars \cup EmojiChars

None == {}
Some(v) == {v}
The(opt) == CHOOSE v \in opt : TRUE

\* emoji_manager.is_emoji
is_emoji(char) == char \in EmojiChars

\* draw.textbbox: the measured ink width of one character
BBoxWidth(char) == IF char = "W" THEN 20 ELSE 5

\* draw.text + _apply_pixel_threshold: the thresholded pixel at (x, y)
GlyphInk(char, x, y) ==
    IF char = "W"
    THEN (IF (x + 2 * y) % 3 = 0 THEN 255 ELSE 0)
    ELSE (IF (x + y) % 2 = 0 THEN 255 ELSE 0)

\* bytes of a file or of an encoder's output: length len, content by seed
Pattern(len, seed) == [i \in 1..len |-> (i * seed + 1) % 256]

\* get_emoji_image + img.save(format='JPEG'): SOI, a JFIF APP0 segment,
\* then the DQT marker and body_len further bytes (none of them 0xFF)
EmojiJpeg(body_len) ==
    <<255, 216, 255, 224, 0, 4, 74, 70, 255, 219>> \o
    [i \in 1..body_len |-> (i * 7) % 255]

\* bytes.find(b'\xff\xdb') from index i on (0-based), -1 when absent
RECURSIVE FindDQT(_, _)
FindDQT(bytes, i) ==
    IF i + 2 > Len(bytes) THEN -1
    ELSE IF bytes[i + 1] = 255 /\ bytes[i + 2] = 219 THEN i
    ELSE FindDQT(bytes, i + 1)

\* def _emoji_to_hex(emoji, char_size): the JPEG with its JFIF segment cut
\* out, or None when the provider gives nothing or anything raises
_emoji_to_hex(emoji, body_len) ==
    IF emoji = "X" THEN None
    ELSE LET jpeg_bytes == EmojiJpeg(body_len)
             dqt_pos == FindDQT(jpeg_bytes, 0)
         IN  IF SubSeq(jpeg_bytes, 3, 4) = <<255, 224>> /\ dqt_pos > 0
             THEN Some(<<255, 216>> \o SubSeq(jpeg_bytes, dqt_pos + 1, Len(jpeg_bytes)))
             ELSE Some(jpeg_bytes)

Min(a, b) == IF a < b THEN a ELSE b
Max(a, b) == IF a > b THEN a ELSE b

\* def _char_to_hex(character, char_size, ...): the packed bitmap of one
\* character, its width clamped to 9..16 at height 32 and to 1..8 otherwise;
\* None when anything raises
_char_to_hex(character, char_size) ==
    IF character = "Q" THEN None
    ELSE LET min_width == IF char_size = 32 THEN 9 ELSE 1
             max_width == IF char_size = 32 THEN 16 ELSE 8
             text_width == Max(min_width, Min(BBoxWidth(character), max_width))
             img == [width |-> text_width, height |-> char_size,
                     rows |-> [y \in 1..char_size |->
                                [x \in 1..text_width |->
                                  GlyphInk(character, x - 1, y - 1)]]]
         IN  Some(_encode_char_img(img))

\* bytes.fromhex on a string given as its characters: ValueError on an odd
\* number of digits or on a character that is no hex digit
HexChars == <<"0", "1", "2", "3", "4", "5", "6", "7",
              "8", "9", "a", "b", "c", "d", "e", "f">>
IsHex(c) == \E i \in 1..16 : HexChars[i] = c
HexVal(c) == (CHOOSE i \in 1..16 : HexChars[i] = c) - 1
FromHex(str) ==
    IF Len(str) % 2 # 0 \/ \E i \in 1..Len(str) : ~IsHex(str[i])
    THEN Raise("ValueError")
    ELSE Ok([i \in 1..(Len(str) \div 2) |->
               16 * HexVal(str[2 * i - 1]) + HexVal(str[2 * i])])

\* the color argument of the encoders: ValueError unless 3 bytes of hex
ColorBytes(color) ==
    LET parsed == FromHex(color)
    IN  IF parsed.err # "" THEN parsed
        ELSE IF Len(parsed.val) # 3 THEN Raise("ValueError")
        ELSE parsed

---------------------------------------------------------------------------
(* send_text.py: the text encoders.  Each returns the list of item blocks  *)
(* it appended, in order (the code's bytes are their concatenation).       *)

\* A plausible slip: an emoji the provider cannot give ends the call.
EmojiItem_Fatal(char, matrix_height, color_bytes, body_len) ==
    LET emoji_bytes == _emoji_to_hex(char, body_len)
    IN  IF emoji_bytes # None /\ The(emoji_bytes) # <<>>
        THEN Ok(<< _encode_character_block(The(emoji_bytes), matrix_height,
                                           color_bytes, TRUE) >>)
        ELSE Raise("ValueError")

\* the emoji branch of both encoders: one block, or nothing when
\* _emoji_to_hex gives None
EmojiItem(char, matrix_height, color_bytes, body_len) ==
    LET emoji_bytes == _emoji_to_hex(char, body_len)
    IN  IF emoji_bytes # None /\ The(emoji_bytes) # <<>>
        THEN Ok(<< _encode_character_block(The(emoji_bytes), matrix_height,
                                           color_bytes, TRUE) >>)
        ELSE Ok(<<>>)

\* A plausible slip: a buffer the reversal pass rejects is skipped like a
\* glyph that failed to render.
BitmapItem_Skip(packed, matrix_height, color_bytes) ==
    LET reversed == _logic_reverse_bits_order_bytes(packed)
    IN  IF reversed.err # "" THEN Ok(<<>>)
        ELSE Ok(<< _encode_character_block(reversed.val, matrix_height,
                                           color_bytes, FALSE) >>)

\* the bitmap branch of both encoders: the bit-reversal pass (which may
\* raise), then one block
BitmapItem(packed, matrix_height, color_bytes) ==
    LET reversed == _logic_reverse_bits_order_bytes(packed)
    IN  IF reversed.err # "" THEN Raise(reversed.err)
        ELSE Ok(<< _encode_character_block(reversed.val, matrix_height,
                                           color_bytes, FALSE) >>)

\* the loop body of _encode_text for one character
CharItem(char, matrix_height, color_bytes, body_len) ==
    IF is_emoji(char)
    THEN EmojiItem(char, matrix_height, color_bytes, body_len)
    ELSE LET char_bytes == _char_to_hex(char, matrix_height)
         IN  IF char_bytes # None /\ The(char_bytes) # <<>>
             THEN BitmapItem(The(char_bytes), matrix_height, color_bytes)
             ELSE Ok(<<>>)

\* the first exception of a list of results, or the results' lists joined
Collect(results) ==
    IF \E i \in 1..Len(results) : results[i].err # ""
    THEN LET first == CHOOSE i \in 1..Len(results) :
                         /\ results[i].err # ""
                         /\ \A j \in 1..(i - 1) : results[j].err = ""
         IN  Raise(results[first].err)
    ELSE Ok(Concat([i \in 1..Len(results) |-> results[i].val]))

\* def _encode_text(text, matrix_height, color, ..., reverse)
_encode_text(text, matrix_height, color, reverse, body_len) ==
    LET color_bytes == ColorBytes(color)
        text_to_process == IF reverse THEN Reverse(text) ELSE text
    IN  IF color_bytes.err # "" THEN Raise(color_bytes.err)
        ELSE Collect([i \in 1..Len(text_to_process) |->
                        CharItem(text_to_process[i], matrix_height,
                                 color_bytes.val, body_len)])

\* the segmentation loop of _encode_text_chunked: runs of plain characters
\* and single emoji, in text order
RECURSIVE Segments(_, _)
Segments(text, current_text) ==
    IF text = <<>>
    THEN (IF current_text # <<>> THEN << [type |-> "text", content |-> current_text] >>
          ELSE <<>>)
    ELSE IF is_emoji(Head(text))
    THEN (IF current_text # <<>> THEN << [type |-> "text", content |-> current_text] >>
          ELSE <<>>)
         \o << [type |-> "emoji", content |-> << Head(text) >>] >>
         \o Segments(Tail(text), <<>>)
    ELSE Segments(Tail(text), Append(current_text, Head(text)))

\* draw.textbbox of a run: the ink widths side by side
RECURSIVE TextWidth(_)
TextWidth(seg) == IF seg = <<>> THEN 0 ELSE BBoxWidth(Head(seg)) + TextWidth(Tail(seg))

\* draw.text of a run on the canvas
RECURSIVE StripInk(_, _, _)
StripInk(seg, x, y) ==
    IF seg = <<>> THEN 0
    ELSE IF x < BBoxWidth(Head(seg)) THEN GlyphInk(Head(seg), x, y)
    ELSE StripInk(Tail(seg), x - BBoxWidth(Head(seg)), y)

\* Image.new('L', (1000, height), 0) in _create_text_image
CanvasWidth == 1000

\* def _render_text_segment_to_chunks(text, height, ..., chunk_width): the
\* run drawn on the canvas, cropped to its width + 4 and split; the
\* rasterizer's exception is not caught here
_render_text_segment_to_chunks(text, height, chunk_width) ==
    IF \E i \in 1..Len(text) : text[i] = "Q" THEN Raise("OSError")
    ELSE LET width == TextWidth(text) + 4
             img == [width |-> width, height |-> height,
                     rows |-> [y \in 1..height |->
                                [x \in 1..width |->
                                  IF x <= CanvasWidth
                                  THEN StripInk(text, x - 1, y - 1) ELSE 0]]]
         IN  Ok(_split_image_into_chunks(img, chunk_width))

\* the loop body of _encode_text_chunked for one segment
SegmentItems(seg, matrix_height, color_bytes, chunk_width, body_len) ==
    IF seg.type = "emoji"
    THEN EmojiItem(seg.content[1], matrix_height, color_bytes, body_len)
    ELSE LET chunks == _render_text_segment_to_chunks(seg.content, matrix_height,
                                                      chunk_width)
         IN  IF chunks.err # "" THEN Raise(chunks.err)
             ELSE Collect([c \in 1..Len(chunks.val) |->
                             BitmapItem(_encode_char_img(chunks.val[c]),
                                        matrix_height, color_bytes)])

\* def _encode_text_chunked(text, matrix_height, color, ..., chunk_width,
\* reverse): (the items, len(items))
_encode_text_chunked(text, matrix_height, color, chunk_width, reverse, body_len) ==
    LET color_bytes == ColorBytes(color)
        segments == Segments(text, <<>>)
    IN  IF color_bytes.err # "" THEN Raise(color_bytes.err)
        ELSE LET collected == Collect([i \in 1..Len(segments) |->
                                SegmentItems(segments[i], matrix_height,
                                             color_bytes.val, chunk_width, body_len)])
             IN  IF collected.err # "" THEN collected
                 ELSE IF reverse THEN Ok(Reverse(collected.val))
                 ELSE collected

---------------------------------------------------------------------------
(* binascii.crc32: the reflected CRC-32 (polynomial 0xEDB88320), on 32-bit *)
(* values kept as halves [hi, lo].                                         *)

W32Xor(u, v) == [hi |-> Xor16(u.hi, v.hi), lo |-> Xor16(u.lo, v.lo)]
W32Shr1(u) == [hi |-> u.hi \div 2, lo |-> (u.lo \div 2) + (u.hi % 2) * 32768]
W32Shr8(u) == [hi |-> u.hi \div 256, lo |-> (u.lo \div 256) + (u.hi % 256) * 256]

\* 0xEDB88320 and 0xFFFFFFFF
CrcPoly == [hi |-> 60856, lo |-> 33568]
CrcOnes == [hi |-> 65535, lo |-> 65535]

RECURSIVE CrcBit(_, _)
CrcBit(c, k) ==
    IF k = 0 THEN c
    ELSE CrcBit(IF c.lo % 2 = 1 THEN W32Xor(CrcPoly, W32Shr1(c)) ELSE W32Shr1(c),
                k - 1)

CrcTable == [b \in 0..255 |-> CrcBit([hi |-> 0, lo |-> b], 8)]

CrcStep(c, byte) == W32Xor(CrcTable[Xor8[c.lo % 256][byte]], W32Shr8(c))

\* the register after data[lo..hi]; the left half is evaluated first
RECURSIVE CrcFold(_, _, _, _)
CrcFold(c, data, lo, hi) ==
    IF lo > hi THEN c
    ELSE IF lo = hi THEN CrcStep(c, data[lo])
    ELSE LET mid == (lo + hi) \div 2
             left == CrcFold(c, data, lo, mid)
         IN  IF left.lo >= 0 THEN CrcFold(left, data, mid + 1, hi) ELSE left

\* binascii.crc32(data) & 0xFFFFFFFF
crc32(data) == W32Xor(CrcFold(CrcOnes, data, 1, Len(data)), CrcOnes)

\* crc.to_bytes(4, byteorder="little")
W32ToBytesLE(u) == << u.lo % 256, u.lo \div 256, u.hi % 256, u.hi \div 256 >>

---------------------------------------------------------------------------
(* send_text.py: send_text up to the payload.                              *)

\* def _get_char_height_from_device(device_info)
_get_char_height_from_device(device_info) ==
    IF device_info.height <= 20 THEN 16 ELSE device_info.height

\* A plausible slip: the speed row is missing from the table.
ChecksPass_NoSpeed(a, char_height) ==
    /\ 0 <= a.rainbow_mode /\ a.rainbow_mode <= 9
    /\ 0 <= a.animation /\ a.animation <= 7
    /\ 0 <= a.save_slot /\ a.save_slot <= 255
    /\ 1 <= Len(a.text) /\ Len(a.text) <= 500
    /\ 1 <= char_height /\ char_height <= 128

\* the table "checks" of send_text and the loop over it
ChecksPass(a, char_height) ==
    /\ 0 <= a.rainbow_mode /\ a.rainbow_mode <= 9
    /\ 0 <= a.animation /\ a.animation <= 7
    /\ 0 <= a.save_slot /\ a.save_slot <= 255
    /\ 0 <= a.speed /\ a.speed <= 100
    /\ 1 <= Len(a.text) /\ Len(a.text) <= 500
    /\ 1 <= char_height /\ char_height <= 128

\* "Disable unsupported animations": only with a device that is not 32x32
AnimationRejected(a) ==
    /\ a.device_info # None
    /\ (The(a.device_info).height # 32 \/ The(a.device_info).width # 32)
    /\ (a.animation = 3 \/ a.animation = 4)

\* the bytearray "properties" of send_text
Properties(a, color_bytes, bg_bytes) ==
    <<0, 1, 1>>
    \o << BitAnd(a.animation, 255), BitAnd(a.speed, 255), BitAnd(a.rainbow_mode, 255) >>
    \o color_bytes
    \o bg_bytes

\* the trailing 4 bytes of the properties: [enable_flag, R, G, B]
Background(bg_color) ==
    IF bg_color # None
    THEN LET bg_color_bytes == ColorBytes(The(bg_color))
         IN  IF bg_color_bytes.err # "" THEN Raise("ValueError")
             ELSE Ok(<<1>> \o bg_color_bytes.val)
    ELSE Ok(<<0, 0, 0, 0>>)

\* chunk_width = 8 if char_height <= 20 else 16
ChunkWidth(char_height) == IF char_height <= 20 THEN 8 ELSE 16

\* the "CHARACTERS" part of send_text: the encoder chosen by var_width
Characters(a, char_height) ==
    IF a.var_width
    THEN _encode_text_chunked(a.text, char_height, a.color, ChunkWidth(char_height),
                              a.animation = 2, a.emoji_len)
    ELSE _encode_text(a.text, char_height, a.color, a.animation = 2, a.emoji_len)

Failed(e) == [err |-> e, num_chars |-> 0, items |-> <<>>, data_payload |-> <<>>]

\* num_chars: len(items) from the chunked encoder, len(text) otherwise
NumChars(a, encoded_items) ==
    IF a.var_width THEN Len(encoded_items) ELSE Len(a.text)

\* data_payload = bytes([num_chars]) + properties + characters_bytes;
\* bytes([n]) raises ValueError unless 0 <= n <= 255
DataPayload(a, properties, encoded) ==
    IF encoded.err # "" THEN Failed(encoded.err)
    ELSE IF NumChars(a, encoded.val) > 255 THEN Failed("ValueError")
    ELSE [err |-> "", num_chars |-> NumChars(a, encoded.val), items |-> encoded.val,
          data_payload |-> << NumChars(a, encoded.val) >> \o properties
                           \o Concat(encoded.val)]

\* char_height as given, or auto-detected from device_info
CharHeight(a) ==
    IF a.char_height = None
    THEN _get_char_height_from_device(The(a.device_info))
    ELSE The(a.char_height)

\* send_text from its first line to data_payload
BuildText(a) ==
    IF a.char_height = None /\ a.device_info = None THEN Failed("ValueError")
    ELSE LET char_height == CharHeight(a)
             color_bytes == ColorBytes(a.color)
             bg_bytes == Background(a.bg_color)
         IN  IF color_bytes.err # "" THEN Failed("ValueError")
             ELSE IF ~ChecksPass(a, char_height) THEN Failed("ValueError")
             ELSE IF AnimationRejected(a) THEN Failed("ValueError")
             ELSE IF bg_bytes.err # "" THEN Failed("ValueError")
             ELSE DataPayload(a, Properties(a, color_bytes.val, bg_bytes.val),
                              Characters(a, char_height))

---------------------------------------------------------------------------
(* The windowing loops of send_text and send_image.  A Window is           *)
(* [data, requires_ack]; a SendPlan is [name, windows].                    *)

\* window_size = 12 * 1024
window_size == 12 * 1024

Window(data, requires_ack) == [data |-> data, requires_ack |-> requires_ack]
SendPlan(name, ws) == [name |-> name, windows |-> ws]
NoPlan == SendPlan("", <<>>)

\* A plausible slip: the crc is taken over the first window's bytes only.
TextCrc_FirstWindow(data_payload) ==
    crc32(SubSeq(data_payload, 1, Min(Len(data_payload), window_size)))

\* crc = binascii.crc32(data_payload) & 0xFFFFFFFF
TextCrc(data_payload) == crc32(data_payload)

\* A plausible slip: the window is cut one byte late.
TextWindowEnd_OffByOne(p, size) == Min(p + window_size + 1, size)

\* window_end = min(pos + window_size, payload_size)
TextWindowEnd(p, size) == Min(p + window_size, size)

\* A plausible slip: a continuation is marked like the first window.
TextOption_AlwaysFirst(index) == 0

\* option = 0x00 if window_index == 0 else 0x02
TextOption(index) == IF index = 0 THEN 0 ELSE 2

\* A plausible slip: the size field carries the slice's length.
TextSizeField_Slice(size, chunk_payload) == ToBytesLE(Len(chunk_payload), 4)

\* payload_size.to_bytes(4, byteorder="little")
TextSizeField(size, chunk_payload) == ToBytesLE(size, 4)

\* A plausible slip: the prefix counts the frame without itself.
TextPrefix_NoSelf(frame_content) == ToBytesLE(Len(frame_content), 2)

\* frame_len = len(frame_content) + 2; prefix = frame_len.to_bytes(2, "little")
TextPrefix(frame_content) == ToBytesLE(Len(frame_content) + 2, 2)

\* A plausible slip: only the first window waits for its acknowledgement.
TextRequiresAck_FirstOnly(index) == index = 0

\* Window(data=message, requires_ack=True)
TextRequiresAck(index) == TRUE

\* the frame header of send_text: [00 01 option] [size] [crc] [00 save_slot]
TextHeader(index, size, crc_value, chunk_payload, save_slot) ==
    << 0, 1, TextOption(index) >>
    \o TextSizeField(size, chunk_payload)
    \o W32ToBytesLE(crc_value)
    \o << 0 >>
    \o << BitAnd(save_slot, 255) >>

\* one iteration of send_text's loop: the window it appends
TextWindow(data_payload, size, crc_value, save_slot, p, index) ==
    LET chunk_payload == SubSeq(data_payload, p + 1, TextWindowEnd(p, size))
        frame_content == TextHeader(index, size, crc_value, chunk_payload, save_slot)
                         \o chunk_payload
    IN  Window(TextPrefix(frame_content) \o frame_content, TextRequiresAck(index))

\* def _frame_size_bytes(length, size_hex_digits)
_frame_size_bytes(length, size_hex_digits) == ToBytesLE(length, size_hex_digits \div 2)

\* def _crc32_le(data)
_crc32_le(data) == crc32(data)

\* def _len_prefix_for(inner)
_len_prefix_for(inner) == ToBytesLE(2 + Len(inner), 2)

\* option = 0x00 if window_index == 0 else 0x02
ImageOption(index) == IF index = 0 THEN 0 ELSE 2

\* serial = 0x01 if window_index == 0 else 0x65
ImageSerial(index) == IF index = 0 THEN 1 ELSE 101

\* the frame header of send_image: [03 00 option] [size] [crc] [02 serial]
\* for a gif, [02 00 option] [size] [crc] [00 65] otherwise
ImageHeader(index, size, crc_value, gif) ==
    IF gif
    THEN << 3, 0, ImageOption(index) >> \o _frame_size_bytes(size, 8)
         \o W32ToBytesLE(crc_value) \o << 2, ImageSerial(index) >>
    ELSE << 2, 0, ImageOption(index) >> \o _frame_size_bytes(size, 8)
         \o W32ToBytesLE(crc_value) \o << 0, 101 >>

\* A plausible slip: the min() is lost and the window runs to the end.
ImageWindowEnd_Whole(p, size) == size

\* window_end = min(pos + window_size, len(payload))
ImageWindowEnd(p, size) == Min(p + window_size, size)

\* A plausible slip: a continuation window starts on the last byte of the
\* window before it.
ImageWindow_Overlap(file_bytes, size, crc_value, gif, p, index) ==
    LET chunk_payload == SubSeq(file_bytes, IF p = 0 THEN 1 ELSE p,
                                ImageWindowEnd(p, size))
        frame == ImageHeader(index, size, crc_value, gif) \o chunk_payload
    IN  Window(_len_prefix_for(frame) \o frame, TRUE)

\* one iteration of send_image's loop: the window it appends
ImageWindow(file_bytes, size, crc_value, gif, p, index) ==
    LET chunk_payload == SubSeq(file_bytes, p + 1, ImageWindowEnd(p, size))
        frame == ImageHeader(index, size, crc_value, gif) \o chunk_payload
    IN  Window(_len_prefix_for(frame) \o frame, TRUE)

---------------------------------------------------------------------------
(* The calls the model makes.                                              *)

\* the longest text of the encoding sweep
MaxTextLen == 2
\* the largest number of full windows a payload of the size sweep spans
MaxWindows == 2

Texts == UNION { [1..k -> Chars] : k \in 0..MaxTextLen }

White == <<"f", "f", "f", "f", "f", "f">>
Red == <<"f", "f", "0", "0", "0", "0">>
BadColors == { <<"f", "f", "f", "f">>, <<"g", "g", "0", "0", "0", "0">>,
               <<"f", "f", "f", "f", "f">> }

Device(w, h) == [width |-> w, height |-> h]

\* texts of every mix of characters, at the heights and in the paths that
\* encode differently; everything else as send_text defaults it
EncodingCalls ==
    [text : Texts, rainbow_mode : {0}, animation : {0, 2}, save_slot : {0},
     speed : {80}, color : {White}, bg_color : {None},
     var_width : BOOLEAN, char_height : {Some(15), Some(16), Some(32)},
     device_info : {None}, emoji_len : {8}]

\* every parameter in and out of its range, on short texts
ValidationCalls ==
    [text : {<<>>, <<"A">>}, rainbow_mode : {0, 10}, animation : {0, 3, 4, 8},
     save_slot : {1, 256}, speed : {80, 101}, color : {White} \cup BadColors,
     bg_color : {None, Some(Red), Some(<<"f", "f">>)},
     var_width : {FALSE}, char_height : {None, Some(16), Some(129)},
     device_info : {None, Some(Device(32, 32)), Some(Device(64, 16))},
     emoji_len : {8}]

\* the bytes of a payload around one emoji's JPEG body: the count byte, the
\* 13 property bytes, the 4-byte item header, SOI and the DQT marker
EmojiOverhead == 1 + 13 + 4 + 2 + 2

\* one emoji whose JPEG brings the payload to k windows, or to one byte more
SizeCalls ==
    [text : {<<"E">>}, rainbow_mode : {0}, animation : {0}, save_slot : {7},
     speed : {80}, color : {White}, bg_color : {None},
     var_width : BOOLEAN, char_height : {Some(16)},
     device_info : {None},
     emoji_len : { k * window_size + d - EmojiOverhead :
                     k \in 1..MaxWindows, d \in 0..1 }]

\* send_text("A", char_height=16) with every other parameter at its default
DefaultCall ==
    [text |-> <<"A">>, rainbow_mode |-> 0, animation |-> 0, save_slot |-> 0,
     speed |-> 80, color |-> White, bg_color |-> None, var_width |-> FALSE,
     char_height |-> Some(16), device_info |-> None, emoji_len |-> 8]

\* one parameter at a time on both sides of each end of its range
RangeCalls ==
    { [DefaultCall EXCEPT !.rainbow_mode = v] : v \in {-1, 0, 9, 10} }
    \cup { [DefaultCall EXCEPT !.animation = v] : v \in {-1, 0, 7, 8} }
    \cup { [DefaultCall EXCEPT !.save_slot = v] : v \in {-1, 0, 255, 256} }
    \cup { [DefaultCall EXCEPT !.speed = v] : v \in {-1, 0, 100, 101} }
    \cup { [DefaultCall EXCEPT !.text = [i \in 1..len |-> "A"]] : len \in {255, 500, 501} }
    \cup { [DefaultCall EXCEPT !.char_height = Some(v)] : v \in {0, 1, 2, 128, 129} }
    \cup { [DefaultCall EXCEPT !.char_height = None, !.device_info = Some(Device(w, h))] :
             w \in {32}, h \in {16, 128, 129} }

SendTextCalls == EncodingCalls \cup ValidationCalls \cup SizeCalls \cup RangeCalls

\* image files: empty, short, and of k windows or one byte more
ImageLens == {0, 1, 20} \cup { k * window_size + d : k \in 1..MaxWindows, d \in 0..1 }

SendImageCalls ==
    [exists : {TRUE}, gif : BOOLEAN, file_len : ImageLens,
     device_info : {None}, resize : {"same"}]
    \cup
    [exists : {TRUE}, gif : BOOLEAN, file_len : {0, 20},
     device_info : {Some(Device(32, 32))}, resize : {"same", "reencoded", "oserror"}]
    \cup
    [exists : {FALSE}, gif : BOOLEAN, file_len : {0},
     device_info : {None}, resize : {"same"}]

\* _load_from_file: the bytes of the file
FileBytes(a) == Pattern(a.file_len, 3)

\* _resize_image under send_image's try: the file's own bytes when it is at
\* the device's size already, the re-encoded image, or, when PIL cannot read
\* the file (ValueError, OSError), the bytes as loaded
Resized(a) ==
    IF a.device_info = None \/ a.file_len = 0 \/ a.resize = "oserror"
    THEN FileBytes(a)
    ELSE IF a.resize = "same" THEN FileBytes(a)
    ELSE Pattern(The(a.device_info).width + The(a.device_info).height, 5)

---------------------------------------------------------------------------
(* scoreboard.py: set_sb_teams and set_sb_score.  A str is the sequence of *)
(* its characters.  The canvas img maps the pixels that were written to    *)
(* their color; ink records, per element, where its glyphs wrote.  The     *)
(* calls are followed up to the finished canvas: img.save and              *)
(* _build_send_plan, which turn it into a plan, are not in these sources.  *)

_SCORE_CHAR_HEIGHT == 16
_SCORE_DIGIT_WIDTH == 6
_SCORE_COLON_WIDTH == 4

\* GLYPH_3X5: 5 rows of 3 columns per character, 1 = LED on
GLYPH_3X5 ==
    ("0" :> <<<<1, 1, 1>>, <<1, 0, 1>>, <<1, 0, 1>>, <<1, 0, 1>>, <<1, 1, 1>>>>)
    @@ ("1" :> <<<<0, 1, 0>>, <<1, 1, 0>>, <<0, 1, 0>>, <<0, 1, 0>>, <<1, 1, 1>>>>)
    @@ ("2" :> <<<<1, 1, 1>>, <<0, 0, 1>>, <<1, 1, 1>>, <<1, 0, 0>>, <<1, 1, 1>>>>)
    @@ ("3" :> <<<<1, 1, 1>>, <<0, 0, 1>>, <<1, 1, 1>>, <<0, 0, 1>>, <<1, 1, 1>>>>)
    @@ ("4" :> <<<<1, 0, 1>>, <<1, 0, 1>>, <<1, 1, 1>>, <<0, 0, 1>>, <<0, 0, 1>>>>)
    @@ ("5" :> <<<<1, 1, 1>>, <<1, 0, 0>>, <<1, 1, 1>>, <<0, 0, 1>>, <<1, 1, 1>>>>)
    @@ ("6" :> <<<<1, 1, 1>>, <<1, 0, 0>>, <<1, 1, 1>>, <<1, 0, 1>>, <<1, 1, 1>>>>)
    @@ ("7" :> <<<<1, 1, 1>>, <<0, 0, 1>>, <<0, 1, 0>>, <<0, 1, 0>>, <<0, 1, 0>>>>)
    @@ ("8" :> <<<<1, 1, 1>>, <<1, 0, 1>>, <<1, 1, 1>>, <<1, 0, 1>>, <<1, 1, 1>>>>)
    @@ ("9" :> <<<<1, 1, 1>>, <<1, 0, 1>>, <<1, 1, 1>>, <<0, 0, 1>>, <<1, 1, 1>>>>)
    @@ ("A" :> <<<<0, 1, 0>>, <<1, 0, 1>>, <<1, 1, 1>>, <<1, 0, 1>>, <<1, 0, 1>>>>)
    @@ ("B" :> <<<<1, 1, 0>>, <<1, 0, 1>>, <<1, 1, 0>>, <<1, 0, 1>>, <<1, 1, 0>>>>)
    @@ ("C" :> <<<<0, 1, 1>>, <<1, 0, 0>>, <<1, 0, 0>>, <<1, 0, 0>>, <<0, 1, 1>>>>)
    @@ ("D" :> <<<<1, 1, 0>>, <<1, 0, 1>>, <<1, 0, 1>>, <<1, 0, 1>>, <<1, 1, 0>>>>)
    @@ ("E" :> <<<<1, 1, 1>>, <<1, 0, 0>>, <<1, 1, 0>>, <<1, 0, 0>>, <<1, 1, 1>>>>)
    @@ ("F" :> <<<<1, 1, 1>>, <<1, 0, 0>>, <<1, 1, 0>>, <<1, 0, 0>>, <<1, 0, 0>>>>)
    @@ ("G" :> <<<<0, 1, 1>>, <<1, 0, 0>>, <<1, 0, 1>>, <<1, 0, 1>>, <<0, 1, 1>>>>)
    @@ ("H" :> <<<<1, 0, 1>>, <<1, 0, 1>>, <<1, 1, 1>>, <<1, 0, 1>>, <<1, 0, 1>>>>)
    @@ ("I" :> <<<<1, 1, 1>>, <<0, 1, 0>>, <<0, 1, 0>>, <<0, 1, 0>>, <<1, 1, 1>>>>)
    @@ ("J" :> <<<<1, 1, 1>>, <<0, 0, 1>>, <<0, 0, 1>>, <<1, 0, 1>>, <<1, 1, 1>>>>)
    @@ ("K" :> <<<<1, 0, 1>>, <<1, 1, 0>>, <<1, 0, 0>>, <<1, 1, 0>>, <<1, 0, 1>>>>)
    @@ ("L" :> <<<<1, 0, 0>>, <<1, 0, 0>>, <<1, 0, 0>>, <<1, 0, 0>>, <<1, 1, 1>>>>)
    @@ ("M" :> <<<<1, 0, 1>>, <<1, 1, 1>>, <<1, 0, 1>>, <<1, 0, 1>>, <<1, 0, 1>>>>)
    @@ ("N" :> <<<<1, 0, 1>>, <<1, 1, 1>>, <<1, 1, 1>>, <<1, 1, 1>>, <<1, 0, 1>>>>)
    @@ ("O" :> <<<<1, 1, 1>>, <<1, 0, 1>>, <<1, 0, 1>>, <<1, 0, 1>>, <<1, 1, 1>>>>)
    @@ ("P" :> <<<<1, 1, 1>>, <<1, 0, 1>>, <<1, 1, 1>>, <<1, 0, 0>>, <<1, 0, 0>>>>)
    @@ ("Q" :> <<<<1, 1, 1>>, <<1, 0, 1>>, <<1, 0, 1>>, <<1, 1, 1>>, <<0, 1, 1>>>>)
    @@ ("R" :> <<<<1, 1, 1>>, <<1, 0, 1>>, <<1, 1, 1>>, <<1, 1, 0>>, <<1, 0, 1>>>>)
    @@ ("S" :> <<<<1, 1, 1>>, <<1, 0, 0>>, <<1, 1, 1>>, <<0, 0, 1>>, <<1, 1, 1>>>>)
    @@ ("T" :> <<<<1, 1, 1>>, <<0, 1, 0>>, <<0, 1, 0>>, <<0, 1, 0>>, <<0, 1, 0>>>>)
    @@ ("U" :> <<<<1, 0, 1>>, <<1, 0, 1>>, <<1, 0, 1>>, <<1, 0, 1>>, <<1, 1, 1>>>>)
    @@ ("V" :> <<<<1, 0, 1>>, <<1, 0, 1>>, <<1, 0, 1>>, <<1, 0, 1>>, <<0, 1, 0>>>>)
    @@ ("W" :> <<<<1, 0, 1>>, <<1, 0, 1>>, <<1, 1, 1>>, <<1, 1, 1>>, <<1, 0, 1>>>>)
    @@ ("X" :> <<<<1, 0, 1>>, <<1, 0, 1>>, <<0, 1, 0>>, <<1, 0, 1>>, <<1, 0, 1>>>>)
    @@ ("Y" :> <<<<1, 0, 1>>, <<1, 0, 1>>, <<0, 1, 0>>, <<0, 1, 0>>, <<0, 1, 0>>>>)
    @@ ("Z" :> <<<<1, 1, 1>>, <<0, 0, 1>>, <<0, 1, 0>>, <<1, 0, 0>>, <<1, 1, 1>>>>)

\* GLYPH_SCORE_2: 16 rows per glyph, the digits 6 columns wide, the colon 4
GLYPH_SCORE_2 ==
    ("0" :> <<
          <<0, 1, 1, 1, 1, 0>>, <<1, 1, 1, 1, 1, 1>>, <<1, 1, 0, 0, 1, 1>>, <<1, 1, 0, 0, 1, 1>>,
          <<1, 1, 0, 0, 1, 1>>, <<1, 1, 0, 0, 1, 1>>, <<1, 1, 0, 0, 1, 1>>, <<1, 1, 0, 0, 1, 1>>,
          <<1, 1, 0, 0, 1, 1>>, <<1, 1, 0, 0, 1, 1>>, <<1, 1, 0, 0, 1, 1>>, <<1, 1, 0, 0, 1, 1>>,
          <<1, 1, 0, 0, 1, 1>>, <<1, 1, 0, 0, 1, 1>>, <<1, 1, 1, 1, 1, 1>>, <<0, 1, 1, 1, 1, 0>> >>)
    @@ ("1" :> <<
          <<0, 0, 1, 1, 0, 0>>, <<0, 0, 1, 1, 0, 0>>, <<0, 0, 1, 1, 0, 0>>, <<0, 0, 1, 1, 0, 0>>,
          <<0, 0, 1, 1, 0, 0>>, <<0, 0, 1, 1, 0, 0>>, <<0, 0, 1, 1, 0, 0>>, <<0, 0, 1, 1, 0, 0>>,
          <<0, 0, 1, 1, 0, 0>>, <<0, 0, 1, 1, 0, 0>>, <<0, 0, 1, 1, 0, 0>>, <<0, 0, 1, 1, 0, 0>>,
          <<0, 0, 1, 1, 0, 0>>, <<0, 0, 1, 1, 0, 0>>, <<0, 0, 1, 1, 0, 0>>, <<0, 0, 1, 1, 0, 0>> >>)
    @@ ("2" :> <<
          <<1, 1, 1, 1, 1, 0>>, <<1, 1, 1, 1, 1, 1>>, <<0, 0, 0, 0, 1, 1>>, <<0, 0, 0, 0, 1, 1>>,
          <<0, 0, 0, 0, 1, 1>>, <<0, 0, 0, 0, 1, 1>>, <<0, 0, 0, 0, 1, 1>>, <<0, 1, 1, 1, 1, 1>>,
          <<1, 1, 1, 1, 1, 0>>, <<1, 1, 0, 0, 0, 0>>, <<1, 1, 0, 0, 0, 0>>, <<1, 1, 0, 0, 0, 0>>,
          <<1, 1, 0, 0, 0, 0>>, <<1, 1, 0, 0, 0, 0>>, <<1, 1, 1, 1, 1, 1>>, <<0, 1, 1, 1, 1, 1>> >>)
    @@ ("3" :> <<
          <<1, 1, 1, 1, 1, 0>>, <<1, 1, 1, 1, 1, 1>>, <<0, 0, 0, 0, 1, 1>>, <<0, 0, 0, 0, 1, 1>>,
          <<0, 0, 0, 0, 1, 1>>, <<0, 0, 0, 0, 1, 1>>, <<0, 0, 0, 0, 1, 1>>, <<1, 1, 1, 1, 1, 1>>,
          <<1, 1, 1, 1, 1, 1>>, <<0, 0, 0, 0, 1, 1>>, <<0, 0, 0, 0, 1, 1>>, <<0, 0, 0, 0, 1, 1>>,
          <<0, 0, 0, 0, 1, 1>>, <<0, 0, 0, 0, 1, 1>>, <<1, 1, 1, 1, 1, 1>>, <<1, 1, 1, 1, 1, 0>> >>)
    @@ ("4" :> <<
          <<1, 1, 0, 0, 1, 1>>, <<1, 1, 0, 0, 1, 1>>, <<1, 1, 0, 0, 1, 1>>, <<1, 1, 0, 0, 1, 1>>,
          <<1, 1, 0, 0, 1, 1>>, <<1, 1, 0, 0, 1, 1>>, <<1, 1, 0, 0, 1, 1>>, <<1, 1, 1, 1, 1, 1>>,
          <<0, 1, 1, 1, 1, 1>>, <<0, 0, 0, 0, 1, 1>>, <<0, 0, 0, 0, 1, 1>>, <<0, 0, 0, 0, 1, 1>>,
          <<0, 0, 0, 0, 1, 1>>, <<0, 0, 0, 0, 1, 1>>, <<0, 0, 0, 0, 1, 1>>, <<0, 0, 0, 0, 1, 1>> >>)
    @@ ("5" :> <<
          <<0, 1, 1, 1, 1, 1>>, <<1, 1, 1, 1, 1, 1>>, <<1, 1, 0, 0, 0, 0>>, <<1, 1, 0, 0, 0, 0>>,
          <<1, 1, 0, 0, 0, 0>>, <<1, 1, 0, 0, 0, 0>>, <<1, 1, 0, 0, 0, 0>>, <<1, 1, 1, 1, 1, 0>>,
          <<0, 1, 1, 1, 1, 1>>, <<0, 0, 0, 0, 1, 1>>, <<0, 0, 0, 0, 1, 1>>, <<0, 0, 0, 0, 1, 1>>,
          <<0, 0, 0, 0, 1, 1>>, <<0, 0, 0, 0, 1, 1>>, <<1, 1, 1, 1, 1, 1>>, <<1, 1, 1, 1, 1, 0>> >>)
    @@ ("6" :> <<
          <<0, 1, 1, 1, 1, 1>>, <<1, 1, 1, 1, 1, 1>>, <<1, 1, 0, 0, 0, 0>>, <<1, 1, 0, 0, 0, 0>>,
          <<1, 1, 0, 0, 0, 0>>, <<1, 1, 0, 0, 0, 0>>, <<1, 1, 0, 0, 0, 0>>, <<1, 1, 1, 1, 1, 0>>,
          <<1, 1, 1, 1, 1, 1>>, <<1, 1, 0, 0, 1, 1>>, <<1, 1, 0, 0, 1, 1>>, <<1, 1, 0, 0, 1, 1>>,
          <<1, 1, 0, 0, 1, 1>>, <<1, 1, 0, 0, 1, 1>>, <<1, 1, 1, 1, 1, 1>>, <<0, 1, 1, 1, 1, 1>> >>)
    @@ ("7" :> <<
          <<1, 1, 1, 1, 1, 1>>, <<1, 1, 1, 1, 1, 1>>, <<0, 0, 0, 0, 1, 1>>, <<0, 0, 0, 0, 1, 1>>,
          <<0, 0, 0, 1, 1, 0>>, <<0, 0, 0, 1, 1, 0>>, <<0, 0, 1, 1, 0, 0>>, <<0, 0, 1, 1, 0, 0>>,
          <<0, 0, 0, 1, 1, 0>>, <<0, 0, 0, 1, 1, 0>>, <<0, 0, 1, 1, 0, 0>>, <<0, 0, 1, 1, 0, 0>>,
          <<0, 1, 1, 0, 0, 0>>, <<0, 1, 1, 0, 0, 0>>, <<1, 1, 0, 0, 0, 0>>, <<1, 1, 0, 0, 0, 0>> >>)
    @@ ("8" :> <<
          <<0, 1, 1, 1, 1, 0>>, <<1, 1, 1, 1, 1, 1>>, <<1, 1, 0, 0, 1, 1>>, <<1, 1, 0, 0, 1, 1>>,
          <<1, 1, 0, 0, 1, 1>>, <<1, 1, 0, 0, 1, 1>>, <<1, 1, 0, 0, 1, 1>>, <<1, 1, 1, 1, 1, 1>>,
          <<1, 1, 1, 1, 1, 1>>, <<1, 1, 0, 0, 1, 1>>, <<1, 1, 0, 0, 1, 1>>, <<1, 1, 0, 0, 1, 1>>,
          <<1, 1, 0, 0, 1, 1>>, <<1, 1, 0, 0, 1, 1>>, <<1, 1, 1, 1, 1, 1>>, <<0, 1, 1, 1, 1, 0>> >>)
    @@ ("9" :> <<
          <<0, 1, 1, 1, 1, 0>>, <<1, 1, 1, 1, 1, 1>>, <<1, 1, 0, 0, 1, 1>>, <<1, 1, 0, 0, 1, 1>>,
          <<1, 1, 0, 0, 1, 1>>, <<1, 1, 0, 0, 1, 1>>, <<1, 1, 0, 0, 1, 1>>, <<1, 1, 1, 1, 1, 1>>,
          <<0, 1, 1, 1, 1, 1>>, <<0, 0, 0, 0, 1, 1>>, <<0, 0, 0, 0, 1, 1>>, <<0, 0, 0, 0, 1, 1>>,
          <<0, 0, 0, 0, 1, 1>>, <<0, 0, 0, 0, 1, 1>>, <<1, 1, 1, 1, 1, 1>>, <<0, 1, 1, 1, 1, 0>> >>)
    @@ (":" :> <<
          <<0, 0, 0, 0>>, <<0, 0, 0, 0>>, <<0, 1, 1, 0>>, <<0, 1, 1, 0>>,
          <<0, 1, 1, 0>>, <<0, 1, 1, 0>>, <<0, 0, 0, 0>>, <<0, 0, 0, 0>>,
          <<0, 0, 0, 0>>, <<0, 0, 0, 0>>, <<0, 1, 1, 0>>, <<0, 1, 1, 0>>,
          <<0, 1, 1, 0>>, <<0, 1, 1, 0>>, <<0, 0, 0, 0>>, <<0, 0, 0, 0>> >>)

Digits == {"0", "1", "2", "3", "4", "5", "6", "7", "8", "9"}
LowerCase == <<"a", "b", "c", "d", "e", "f", "g", "h", "i", "j", "k", "l", "m",
               "n", "o", "p", "q", "r", "s", "t", "u", "v", "w", "x", "y", "z">>
UpperCase == <<"A", "B", "C", "D", "E", "F", "G", "H", "I", "J", "K", "L", "M",
               "N", "O", "P", "Q", "R", "S", "T", "U", "V", "W", "X", "Y", "Z">>

\* str.upper(), character by character
Upper(c) ==
    IF \E i \in 1..26 : LowerCase[i] = c
    THEN UpperCase[CHOOSE i \in 1..26 : LowerCase[i] = c]
    ELSE c

\* str.isdigit(): false for the empty string
IsDigits(s) == s # <<>> /\ \A i \in 1..Len(s) : s[i] \in Digits

\* s.strip().replace(" ", "") on strings whose only whitespace is the space
NotSpace(c) == c # " "
NoSpaces(s) == SelectSeq(s, NotSpace)

\* s.split(":", 1) for s holding a colon
SplitColon(s) ==
    LET at == CHOOSE i \in 1..Len(s) : s[i] = ":" /\ \A j \in 1..(i - 1) : s[j] # ":"
    IN  << SubSeq(s, 1, at - 1), SubSeq(s, at + 1, Len(s)) >>

HasColon(s) == \E i \in 1..Len(s) : s[i] = ":"

\* the value of a hex digit of either case
HexDigit(c) ==
    IF IsHex(c) THEN HexVal(c)
    ELSE 9 + (CHOOSE i \in 1..6 : UpperCase[i] = c)

\* def _parse_color_hex(color)
_parse_color_hex(color) ==
    IF Len(color) # 6
       \/ \E i \in 1..Len(color) :
             ~(IsHex(color[i]) \/ \E k \in 1..6 : UpperCase[k] = color[i])
    THEN Raise("ValueError")
    ELSE Ok([i \in 1..3 |-> 16 * HexDigit(color[2 * i - 1]) + HexDigit(color[2 * i])])

\* def _compute_vertical_start(num_chars, matrix_height, char_height, spacing)
_compute_vertical_start(count, matrix_height, char_height, spacing) ==
    IF count <= 0 THEN 0
    ELSE LET total_height == count * char_height + (count - 1) * spacing
         IN  IF total_height > matrix_height THEN 0
             ELSE (matrix_height - total_height) \div 2

\* the (row, column) cells of a glyph that are "1"
GlyphCells(glyph) ==
    { rc \in (0..(Len(glyph) - 1)) \X (0..(Len(glyph[1]) - 1)) :
        glyph[rc[1] + 1][rc[2] + 1] = 1 }

\* the pixels of a width x height image
Canvas(width, height) == (0..(width - 1)) \X (0..(height - 1))

\* def _draw_glyph_3x5: the pixels it puts
_draw_glyph_3x5(width, height, glyph, x_offset, y_offset) ==
    { <<x_offset + rc[2], y_offset + rc[1]>> : rc \in GlyphCells(glyph) }
    \cap Canvas(width, height)

\* def _draw_glyph_3x5_rotated_ccw: (col, row) -> (row, glyph_w - 1 - col)
_draw_glyph_3x5_rotated_ccw(width, height, glyph, x_offset, y_offset) ==
    { <<x_offset + rc[1], y_offset + (Len(glyph[1]) - 1 - rc[2])>> :
        rc \in GlyphCells(glyph) }
    \cap Canvas(width, height)

\* def _draw_glyph_3x5_rotated_cw: (col, row) -> (glyph_h - 1 - row, col)
_draw_glyph_3x5_rotated_cw(width, height, glyph, x_offset, y_offset) ==
    { <<x_offset + (Len(glyph) - 1 - rc[1]), y_offset + rc[2]>> :
        rc \in GlyphCells(glyph) }
    \cap Canvas(width, height)

\* def _draw_score_glyph: the pixels it puts
_draw_score_glyph(width, height, glyph, x_offset, y_offset) ==
    { <<x_offset + rc[2], y_offset + rc[1]>> : rc \in GlyphCells(glyph) }
    \cap Canvas(width, height)

\* def _parse_score(score): (left, right), two digits each
_parse_score(score) ==
    LET s == NoSpaces(score)
        parts == IF HasColon(s) THEN SplitColon(s)
                 ELSE << SubSeq(s, 1, 2), SubSeq(s, 3, 4) >>
    IN  IF ~HasColon(s) /\ ~(Len(s) = 4 /\ IsDigits(s)) THEN Raise("ValueError")
        ELSE IF Len(parts[1]) # 2 \/ Len(parts[2]) # 2
                \/ ~IsDigits(parts[1] \o parts[2])
             THEN Raise("ValueError")
        ELSE Ok(parts)

\* def _parse_sets(sets): (left, right), digits on both sides
_parse_sets(sets) ==
    LET s == NoSpaces(sets)
        parts == IF HasColon(s) THEN SplitColon(s)
                 ELSE << SubSeq(s, 1, 1), SubSeq(s, 2, 2) >>
    IN  IF s = <<>> THEN Raise("ValueError")
        ELSE IF ~HasColon(s) /\ ~(Len(s) = 2 /\ IsDigits(s)) THEN Raise("ValueError")
        ELSE IF ~IsDigits(parts[1]) \/ ~IsDigits(parts[2]) THEN Raise("ValueError")
        ELSE Ok(parts)

\* _normalize_sets inside set_sb_score: at most 2 digits, "" when not numeric
_normalize_sets(value) ==
    LET s == NoSpaces(value)
    IN  IF s = <<>> \/ ~IsDigits(s) THEN <<>>
        ELSE SubSeq(s, 1, IF Len(s) < 2 THEN Len(s) ELSE 2)

\* (team or "").upper()[:4], then only the characters GLYPH_3X5 has
InGlyphs(c) == c \in DOMAIN GLYPH_3X5
TeamName(team) ==
    LET upper == [i \in 1..Len(team) |-> Upper(team[i])]
    IN  SelectSeq(SubSeq(upper, 1, IF Len(upper) < 4 THEN Len(upper) ELSE 4), InGlyphs)

\* the left name: columns from x = 0, rotated CCW, drawn from bottom to top
LeftNamePixels(team_left, width, height) ==
    LET num_left == Len(team_left)
        y_start_left == _compute_vertical_start(num_left, height, 3, 1)
    IN  UNION { _draw_glyph_3x5_rotated_ccw(width, height, GLYPH_3X5[team_left[idx + 1]],
                    0, y_start_left + (num_left - 1 - idx) * (3 + 1)) :
                idx \in 0..(num_left - 1) }

\* the right name: columns from x = width - 5, rotated CW
RightNamePixels(team_right, width, height) ==
    LET num_right == Len(team_right)
        y_start_right == _compute_vertical_start(num_right, height, 3, 1)
    IN  UNION { _draw_glyph_3x5_rotated_cw(width, height, GLYPH_3X5[team_right[idx + 1]],
                    width - 5, y_start_right + idx * (3 + 1)) :
                idx \in 0..(num_right - 1) }

\* the sets digits of one side: unrotated, stacked from the top at column x
SetsPixels(sets_str, x, width, height) ==
    UNION { _draw_glyph_3x5(width, height, GLYPH_3X5[sets_str[idx + 1]],
                            x, 0 + idx * (5 + 1)) :
            idx \in 0..(Len(sets_str) - 1) }

\* start_x of the score: centered in columns 8 .. width - 9 when it fits
ScoreStartX(width) ==
    LET center_left == 8
        center_right == width - 9
        center_width == center_right - center_left + 1
        total_score_width == (_SCORE_DIGIT_WIDTH * 4) + _SCORE_COLON_WIDTH + (1 * 2) + (1 * 2)
        slack == (center_width - total_score_width) \div 2
    IN  center_left + (IF slack > 0 THEN slack ELSE 0)

\* _draw_two_digits inside set_sb_score: the pixels of both digits from x
TwoDigitsPixels(value, x, width, height) ==
    _draw_score_glyph(width, height, GLYPH_SCORE_2[value[1]], x, 0)
    \cup _draw_score_glyph(width, height, GLYPH_SCORE_2[value[2]],
                           x + _SCORE_DIGIT_WIDTH + 1, 0)

\* putpixel over a set of pixels: the last color written stays
Paint(canvas, pixels, color) == [p \in pixels |-> color] @@ canvas

Blank == [p \in {} |-> <<0, 0, 0>>]
NoInk == [names |-> {}, sets |-> {}, score |-> {}]

\* no scoreboard call has drawn anything
InitBoard == board = Blank /\ ink = NoInk /\ drawn = 0

---------------------------------------------------------------------------
(* cli.py: run_commands.  The session's log of what it was asked to run is *)
(* a sequence of [event, index]: "start" when execute_command is awaited    *)
(* for the command at that index, "end" when the await returns.             *)

\* the names the COMMANDS registry holds: the commands of this package
COMMANDS == {"send_text", "send_image", "set_sb_teams", "set_sb_score",
             "set_time", "set_clock_mode"}

\* run_commands is not running
InitCli ==
    /\ commands = <<>> /\ cmd_index = 0 /\ cli = "off"
    /\ session = <<>> /\ logged = <<>>

---------------------------------------------------------------------------
(* The state machine.                                                      *)

NoCall == [text |-> <<>>]

InitPlan ==
    /\ pc = "idle" /\ cmd = "none" /\ call = NoCall
    /\ items = <<>> /\ num_chars = 0
    /\ payload = <<>> /\ payload_size = 0 /\ crc = CrcOnes /\ is_gif = FALSE
    /\ pos = 0 /\ window_index = 0 /\ windows = <<>>
    /\ plan = NoPlan /\ error = ""

\* no helper is being called on its own
Pending == [err |-> "pending", val |-> <<>>]
InitFn == fn = "none" /\ arg = <<>> /\ ret = Pending

Init == InitPlan /\ n = 0 /\ rev = -1 /\ rpc = "off" /\ InitFn /\ InitBoard /\ InitCli

\* the call raises e: nothing is returned
Raised(e) ==
    /\ pc' = "raised" /\ error' = e
    /\ UNCHANGED <<items, num_chars, payload, payload_size, crc, is_gif,
                   pos, window_index, windows, plan>>

\* the loop starts on data: crc and size are taken once, before it
StartLoop(data, crc_value) ==
    /\ pc' = "framing"
    /\ payload' = data /\ payload_size' = Len(data) /\ crc' = crc_value
    /\ pos' = 0 /\ window_index' = 0 /\ windows' = <<>>
    /\ UNCHANGED <<plan, error>>

\* send_text, from its first line to the head of its while loop
StartText(a, built) ==
    /\ cmd' = "send_text" /\ call' = a
    /\ IF built.err # "" THEN Raised(built.err)
       ELSE /\ items' = built.items /\ num_chars' = built.num_chars
            /\ is_gif' = FALSE
            /\ StartLoop(built.data_payload, TextCrc(built.data_payload))

SendTextCall ==
    /\ pc = "idle"
    /\ \E a \in SendTextCalls : StartText(a, BuildText(a))
    /\ UNCHANGED <<revVars, fnVars, sbVars, cliVars>>

\* one iteration of "while pos < payload_size" in send_text
SendTextWindow ==
    /\ pc = "framing" /\ cmd = "send_text" /\ pos < payload_size
    /\ windows' = Append(windows, TextWindow(payload, payload_size, crc,
                                             call.save_slot, pos, window_index))
    /\ window_index' = window_index + 1
    /\ pos' = TextWindowEnd(pos, payload_size)
    /\ UNCHANGED <<pc, cmd, call, items, num_chars, payload, payload_size, crc,
                   is_gif, plan, error>>
    /\ UNCHANGED <<revVars, fnVars, sbVars, cliVars>>

\* return SendPlan("send_text", windows)
SendTextReturn ==
    /\ pc = "framing" /\ cmd = "send_text" /\ ~(pos < payload_size)
    /\ plan' = SendPlan("send_text", windows)
    /\ pc' = "done"
    /\ UNCHANGED <<cmd, call, items, num_chars, payload, payload_size, crc,
                   is_gif, pos, window_index, windows, error>>
    /\ UNCHANGED <<revVars, fnVars, sbVars, cliVars>>

\* send_image, from its first line to the head of its while loop
StartImage(a, file_bytes) ==
    /\ cmd' = "send_image" /\ call' = a
    /\ IF ~a.exists THEN Raised("ValueError")
       ELSE /\ is_gif' = a.gif
            /\ UNCHANGED <<items, num_chars>>
            /\ StartLoop(file_bytes, _crc32_le(file_bytes))

SendImageCall ==
    /\ pc = "idle"
    /\ \E a \in SendImageCalls : StartImage(a, Resized(a))
    /\ UNCHANGED <<revVars, fnVars, sbVars, cliVars>>

\* one iteration of "while pos < len(payload)" in send_image
SendImageWindow ==
    /\ pc = "framing" /\ cmd = "send_image" /\ pos < Len(payload)
    /\ windows' = Append(windows, ImageWindow(payload, payload_size, crc, is_gif,
                                              pos, window_index))
    /\ window_index' = window_index + 1
    /\ pos' = ImageWindowEnd(pos, Len(payload))
    /\ UNCHANGED <<pc, cmd, call, items, num_chars, payload, payload_size, crc,
                   is_gif, plan, error>>
    /\ UNCHANGED <<revVars, fnVars, sbVars, cliVars>>

\* return SendPlan("send_image", windows)
SendImageReturn ==
    /\ pc = "framing" /\ cmd = "send_image" /\ ~(pos < Len(payload))
    /\ plan' = SendPlan("send_image", windows)
    /\ pc' = "done"
    /\ UNCHANGED <<cmd, call, items, num_chars, payload, payload_size, crc,
                   is_gif, pos, window_index, windows, error>>
    /\ UNCHANGED <<revVars, fnVars, sbVars, cliVars>>

Next ==
    \/ SendTextCall
    \/ SendTextWindow
    \/ SendTextReturn
    \/ SendImageCall
    \/ SendImageWindow
    \/ SendImageReturn

Spec == Init /\ [][Next]_vars

\* a call that has entered its windowing loop runs it to its return: the
\* loop is sequential code with nothing to wait for
SpecLoop ==
    /\ Spec
    /\ WF_vars(SendTextWindow) /\ WF_vars(SendTextReturn)
    /\ WF_vars(SendImageWindow) /\ WF_vars(SendImageReturn)

\* the 16-bit values
Word16 == 0..(2 ^ 16 - 1)

InitRev == InitPlan /\ n \in Word16 /\ rev = -1 /\ rpc = "start" /\ InitFn /\ InitBoard /\ InitCli

\* a call of _reverse_bits_16(n)
ReverseBits16 ==
    /\ rpc = "start"
    /\ rev' = _reverse_bits_16(n)
    /\ rpc' = "done"
    /\ UNCHANGED n
    /\ UNCHANGED <<planVars, fnVars, sbVars, cliVars>>

NextRev == ReverseBits16

SpecRev == InitRev /\ [][NextRev]_vars

---------------------------------------------------------------------------
(* Helpers called on their own, on arguments drawn from bounded sets.      *)

\* the tallest image handed to the row packer
MaxRows == 2

\* widths on both sides of every word-size boundary, and past 32 columns
PackWidths == {1, 5, 8, 9, 16, 17, 24, 25, 32, 33}

\* an 'L' image with the pixels of lit on (255, or 1 on odd diagonals)
LitImage(w, h, lit) ==
    [width |-> w, height |-> h,
     rows |-> [y \in 1..h |-> [x \in 1..w |->
                 IF <<x - 1, y - 1>> \in lit
                 THEN (IF (x + y) % 2 = 0 THEN 255 ELSE 1) ELSE 0]]]

\* images that are black, have one or two lit pixels, or are lit all over
PackImages ==
    UNION { LET cells == (0..(w - 1)) \X (0..(h - 1))
            IN  { LitImage(w, h, {}), LitImage(w, h, cells) }
                \cup { LitImage(w, h, {c, d}) : c \in cells, d \in cells }
          : w \in PackWidths, h \in 1..MaxRows }

\* line_value_2 |= (1 << (31 - x)): a lit pixel at column 32 or beyond makes
\* the shift count negative, which Python refuses with ValueError
NegativeShift(img) ==
    \E y \in 1..img.height : \E x \in 33..img.width : img.rows[y][x] > 0

\* a call of _encode_char_img(img), with what it returns or raises
EncodeCharImgCall ==
    /\ fn = "_encode_char_img" /\ ret = Pending
    /\ ret' = IF NegativeShift(arg) THEN Raise("ValueError")
              ELSE Ok(_encode_char_img(arg))
    /\ UNCHANGED <<fn, arg>>
    /\ UNCHANGED <<planVars, revVars, sbVars, cliVars>>

\* item data of 0, 1, 2 and 300 bytes, at heights on both sides of 20 and 32
BlockCalls ==
    [char_bytes : { Pattern(len, 11) : len \in {0, 1, 2, 300} },
     text_size : {8, 16, 20, 24, 32, 64},
     color_bytes : { <<255, 255, 255>>, <<255, 0, 16>> },
     is_emoji : BOOLEAN]

\* a call of _encode_character_block(char_bytes, text_size, color_bytes, is_emoji)
EncodeCharacterBlockCall ==
    /\ fn = "_encode_character_block" /\ ret = Pending
    /\ ret' = Ok(_encode_character_block(arg.char_bytes, arg.text_size,
                                         arg.color_bytes, arg.is_emoji))
    /\ UNCHANGED <<fn, arg>>
    /\ UNCHANGED <<planVars, revVars, sbVars, cliVars>>

\* send_image.py: resizing.  An image is [width, height, mode, picture]
\* with picture the rectangle [x, y, width, height] its source picture takes
\* up in its own coordinates: the whole image before any resize.

Picture(x, y, w, h) == [x |-> x, y |-> y, width |-> w, height |-> h]
SourceImage(w, h, mode) ==
    [width |-> w, height |-> h, mode |-> mode, picture |-> Picture(0, 0, w, h)]

\* img_aspect > target_aspect, on sizes whose quotients are exact
Wider(img, target_width, target_height) ==
    img.width * target_height > target_width * img.height

\* def _resize_and_crop_image(img, target_width, target_height): scaled to
\* cover the target, then cropped around the center
_resize_and_crop_image(img, target_width, target_height) ==
    LET wider == Wider(img, target_width, target_height)
        new_height == IF wider THEN target_height
                      ELSE (target_width * img.height) \div img.width
        new_width == IF wider THEN (target_height * img.width) \div img.height
                     ELSE target_width
        left == (new_width - target_width) \div 2
        top == (new_height - target_height) \div 2
        right == left + target_width
        bottom == top + target_height
    IN  [width |-> right - left, height |-> bottom - top, mode |-> img.mode,
         picture |-> Picture(0 - left, 0 - top, new_width, new_height)]

\* def _resize_and_fit_image(img, target_width, target_height): scaled to
\* fit inside the target, then pasted on a target-sized background
_resize_and_fit_image(img, target_width, target_height) ==
    LET wider == Wider(img, target_width, target_height)
        new_width == IF wider THEN target_width
                     ELSE (target_height * img.width) \div img.height
        new_height == IF wider THEN (target_width * img.height) \div img.width
                      ELSE target_height
        paste_x == (target_width - new_width) \div 2
        paste_y == (target_height - new_height) \div 2
    IN  [width |-> target_width, height |-> target_height,
         mode |-> IF img.mode \in {"P", "PA"} THEN "P"
                  ELSE IF img.mode \in {"RGBA", "LA"} THEN "RGBA" ELSE "RGB",
         picture |-> Picture(paste_x, paste_y, new_width, new_height)]

\* the members of class ResizeMethod(Enum); a member is not equal to a str
ResizeMethod == [CROP |-> "ResizeMethod.CROP", FIT |-> "ResizeMethod.FIT"]

\* def _resize_image(file_bytes, is_gif, target_width, target_height,
\* fit_mode) on the image the bytes decode to: [same, image], same when
\* file_bytes is returned as it came
_resize_image(img, gif, target_width, target_height, fit_mode) ==
    LET needs_resize == <<img.width, img.height>> # <<target_width, target_height>>
        needs_conversion == img.mode \in {"P", "PA", "L", "LA"}
    IN  IF ~needs_resize /\ ~needs_conversion /\ ~gif
        THEN Ok([same |-> TRUE, image |-> img])
        ELSE IF gif
        THEN (IF ~needs_resize THEN Ok([same |-> FALSE, image |-> [img EXCEPT !.mode = "P"]])
              ELSE IF fit_mode = ResizeMethod.FIT
              THEN Ok([same |-> FALSE,
                       image |-> [_resize_and_fit_image(img, target_width, target_height)
                                    EXCEPT !.mode = "P"]])
              ELSE IF fit_mode = ResizeMethod.CROP
              THEN Ok([same |-> FALSE,
                       image |-> [_resize_and_crop_image(img, target_width, target_height)
                                    EXCEPT !.mode = "P"]])
              ELSE Raise("ValueError"))
        ELSE LET resized_img ==
                     IF ~needs_resize THEN img
                     ELSE IF fit_mode = "fit"
                     THEN _resize_and_fit_image(img, target_width, target_height)
                     ELSE _resize_and_crop_image(img, target_width, target_height)
             IN  Ok([same |-> FALSE, image |-> [resized_img EXCEPT !.mode = "RGB"]])

\* images smaller, larger, wider and taller than the device, true-color and
\* palette, static and animated, under both policies
ResizeSizes == {16, 32, 64}
ResizeCalls ==
    [img : { SourceImage(w, h, m) : w \in ResizeSizes, h \in ResizeSizes,
                                    m \in {"RGB", "P"} },
     is_gif : BOOLEAN,
     target : { <<32, 32>>, <<64, 16>> },
     fit_mode : { ResizeMethod.CROP, ResizeMethod.FIT }]

\* a call of _resize_image as send_image makes it
ResizeImageCall ==
    /\ fn = "_resize_image" /\ ret = Pending
    /\ ret' = _resize_image(arg.img, arg.is_gif, arg.target[1], arg.target[2],
                            arg.fit_mode)
    /\ UNCHANGED <<fn, arg>>
    /\ UNCHANGED <<planVars, revVars, sbVars, cliVars>>

\* strips narrower than a chunk, of whole chunks, and one or a few columns
\* more, every column of its own gray
StripWidths == {1, 4, 7, 8, 9, 15, 16, 17, 24, 25, 32, 33}
StripImage(w, h, k) ==
    [width |-> w, height |-> h,
     rows |-> [y \in 1..h |-> [x \in 1..w |-> (x * 7 + y * 3 + k) % 256]]]
SplitCalls ==
    [img : { StripImage(w, h, k) : w \in StripWidths, h \in 1..MaxRows, k \in 0..2 }
           \cup { LitImage(w, h, {<<w - 1, 0>>}) : w \in StripWidths, h \in 1..MaxRows },
     char_height : {16, 20, 21, 32}]

\* a call of _split_image_into_chunks(img, chunk_width) with the chunk width
\* send_text chooses for char_height
SplitImageCall ==
    /\ fn = "_split_image_into_chunks" /\ ret.err = "pending"
    /\ ret' = Ok(_split_image_into_chunks(arg.img, ChunkWidth(arg.char_height)))
    /\ UNCHANGED <<fn, arg>>
    /\ UNCHANGED <<planVars, revVars, sbVars, cliVars>>

\* byte strings of 0 to 4 bytes: every byte value beside a few others, and
\* odd lengths
ReverseInputs ==
    { <<>>, <<1>>, <<1, 2, 3>> }
    \cup { <<b, c>> : b \in 0..255, c \in {0, 1, 165, 255} }
    \cup { <<c, b>> : b \in 0..255, c \in {2, 128} }
    \cup { <<b, 255 - b, (b * 7) % 256, b>> : b \in 0..255 }

\* _logic_reverse_bits_order_bytes(data), and the pass once more on what it
\* returned: [once, twice]
LogicReverseCall ==
    /\ fn = "_logic_reverse_bits_order_bytes" /\ ret.err = "pending"
    /\ LET once == _logic_reverse_bits_order_bytes(arg)
       IN  ret' = IF once.err # "" THEN once
                  ELSE Ok([once |-> once.val,
                           twice |-> _logic_reverse_bits_order_bytes(once.val)])
    /\ UNCHANGED <<fn, arg>>
    /\ UNCHANGED <<planVars, revVars, sbVars, cliVars>>

\* devices on both sides of heights 8, 20 and 32
DeviceHeights == {1, 8, 9, 16, 20, 21, 32, 33, 64}

\* a call of _get_char_height_from_device(device_info)
GetCharHeightCall ==
    /\ fn = "_get_char_height_from_device" /\ ret.err = "pending"
    /\ ret' = Ok(_get_char_height_from_device(arg))
    /\ UNCHANGED <<fn, arg>>
    /\ UNCHANGED <<planVars, revVars, sbVars, cliVars>>

InitHelpers ==
    /\ InitPlan /\ n = 0 /\ rev = -1 /\ rpc = "off" /\ InitBoard /\ InitCli
    /\ ret = Pending
    /\ \/ fn = "_encode_char_img" /\ arg \in PackImages
       \/ fn = "_encode_character_block" /\ arg \in BlockCalls
       \/ fn = "_resize_image" /\ arg \in ResizeCalls
       \/ fn = "_split_image_into_chunks" /\ arg \in SplitCalls
       \/ fn = "_logic_reverse_bits_order_bytes" /\ arg \in ReverseInputs
       \/ /\ fn = "_get_char_height_from_device"
          /\ arg \in { [width |-> w, height |-> h] : w \in {32, 64}, h \in DeviceHeights }

NextHelpers ==
    \/ EncodeCharImgCall
    \/ EncodeCharacterBlockCall
    \/ ResizeImageCall
    \/ GetCharHeightCall
    \/ SplitImageCall
    \/ LogicReverseCall

SpecHelpers == InitHelpers /\ [][NextHelpers]_vars

---------------------------------------------------------------------------
(* The scoreboard calls, step by step.                                     *)

SbWidths == {9, 10, 32, 47, 48, 49, 64}
SbHeights == {15, 16, 32}
SbDevices == {None} \cup { Some(Device(w, h)) : w \in SbWidths, h \in SbHeights }

\* pairs of team names: empty, full, lower case, unsupported and too long
SbTeams ==
    { << <<>>, <<"A", "Z", "0", "9">> >>,
      << <<"a", "b">>, <<"M", "?">> >>,
      << <<"W", "W", "W", "W", "W">>, <<"8", "8", "8", "8">> >> }

SbColors == { <<"F", "F", "0", "0", "0", "0">>, White, <<"F", "F", "F">> }

SbSets == { <<"1", ":", "2">>, <<"1", "2">>, <<"1", "0", ":", "9">>,
            <<"1", " ", ":", " ", "2">>, <<>>, <<"x", ":", "1">> }

SbScores == { <<"0", "0", ":", "0", "0">>, <<"1", "2", "3", "4">>,
              <<"8", "8", ":", "8", "8">>, <<"0", "7", " ", ":", " ", "4", "2">>,
              <<"1", ":", "2">>, <<"a", "b", ":", "c", "d">> }

SbTeamsCalls ==
    { [team_left |-> t[1], team_right |-> t[2], sets |-> <<>>, score |-> <<>>,
       color |-> c, device_info |-> d] :
      t \in SbTeams, c \in SbColors, d \in SbDevices }

SbScoreCalls ==
    { [team_left |-> t[1], team_right |-> t[2], sets |-> s, score |-> sc,
       color |-> c, device_info |-> d] :
      t \in SbTeams, s \in SbSets, sc \in SbScores, c \in SbColors, d \in SbDevices }

\* the width and height of the running scoreboard call's matrix
SbWidth == The(call.device_info).width
SbHeight == The(call.device_info).height

\* a scoreboard call raises e: the canvas stays as it is
SbRaised(e) ==
    /\ Raised(e)
    /\ UNCHANGED <<cmd, call>>
    /\ UNCHANGED sbVars

\* set_sb_teams, from its first line to the blank canvas
SetSbTeamsCall ==
    /\ pc = "idle"
    /\ \E a \in SbTeamsCalls :
          /\ cmd' = "set_sb_teams" /\ call' = a
          /\ IF a.device_info = None THEN Raised("ValueError")
             ELSE IF The(a.device_info).width < 10 THEN Raised("ValueError")
             ELSE IF _parse_color_hex(a.color).err # "" THEN Raised("ValueError")
             ELSE /\ pc' = "names"
                  /\ UNCHANGED <<items, num_chars, payload, payload_size, crc,
                                 is_gif, pos, window_index, windows, plan, error>>
    /\ board' = Blank /\ ink' = NoInk /\ drawn' = 0
    /\ UNCHANGED <<revVars, fnVars, cliVars>>

\* set_sb_score, from its first line to the blank canvas
SetSbScoreCall ==
    /\ pc = "idle"
    /\ \E a \in SbScoreCalls :
          /\ cmd' = "set_sb_score" /\ call' = a
          /\ IF a.device_info = None THEN Raised("ValueError")
             ELSE IF The(a.device_info).height < _SCORE_CHAR_HEIGHT THEN Raised("ValueError")
             ELSE IF The(a.device_info).width < 10 THEN Raised("ValueError")
             ELSE IF _parse_color_hex(a.color).err # "" THEN Raised("ValueError")
             ELSE /\ pc' = "names"
                  /\ UNCHANGED <<items, num_chars, payload, payload_size, crc,
                                 is_gif, pos, window_index, windows, plan, error>>
    /\ board' = Blank /\ ink' = NoInk /\ drawn' = 0
    /\ UNCHANGED <<revVars, fnVars, cliVars>>

\* both commands: the two loops that draw the team names
SbDrawNames ==
    /\ pc = "names"
    /\ LET team_left == TeamName(call.team_left)
           team_right == TeamName(call.team_right)
           pixels == LeftNamePixels(team_left, SbWidth, SbHeight)
                     \cup RightNamePixels(team_right, SbWidth, SbHeight)
       IN  /\ board' = Paint(board, pixels, _parse_color_hex(call.color).val)
           /\ ink' = [ink EXCEPT !.names = pixels]
           /\ drawn' = drawn + Len(team_left) + Len(team_right)
    /\ pc' = IF cmd = "set_sb_teams" THEN "encode" ELSE "sets"
    /\ UNCHANGED <<cmd, call, items, num_chars, payload, payload_size, crc,
                   is_gif, pos, window_index, windows, plan, error>>
    /\ UNCHANGED <<revVars, fnVars, cliVars>>

\* set_sb_score: _parse_sets, then the sets digits of both sides
SbDrawSets ==
    /\ pc = "sets"
    /\ LET parsed == _parse_sets(call.sets)
       IN  IF parsed.err # "" THEN SbRaised("ValueError")
           ELSE LET sets_left_str == _normalize_sets(parsed.val[1])
                    sets_right_str == _normalize_sets(parsed.val[2])
                    left == SetsPixels(sets_left_str, 6, SbWidth, SbHeight)
                    right == SetsPixels(sets_right_str, SbWidth - 9, SbWidth, SbHeight)
                IN  /\ board' = Paint(Paint(board, left, <<0, 255, 0>>), right, <<255, 0, 0>>)
                    /\ ink' = [ink EXCEPT !.sets = left \cup right]
                    /\ drawn' = drawn + Len(sets_left_str) + Len(sets_right_str)
                    /\ pc' = "score"
                    /\ UNCHANGED <<cmd, call, items, num_chars, payload, payload_size,
                                   crc, is_gif, pos, window_index, windows, plan, error>>
    /\ UNCHANGED <<revVars, fnVars, cliVars>>

\* set_sb_score: _parse_score, then two digits, the colon, two digits
SbDrawScore ==
    /\ pc = "score"
    /\ LET parsed == _parse_score(call.score)
       IN  IF parsed.err # "" THEN SbRaised("ValueError")
           ELSE LET start_x == ScoreStartX(SbWidth)
                    colon_x == start_x + _SCORE_DIGIT_WIDTH + 1 + _SCORE_DIGIT_WIDTH + 1
                    right_x == colon_x + _SCORE_COLON_WIDTH + 1
                    left == TwoDigitsPixels(parsed.val[1], start_x, SbWidth, SbHeight)
                    colon == _draw_score_glyph(SbWidth, SbHeight, GLYPH_SCORE_2[":"],
                                               colon_x, 0)
                    right == TwoDigitsPixels(parsed.val[2], right_x, SbWidth, SbHeight)
                IN  /\ board' = Paint(Paint(Paint(board, left, <<0, 255, 0>>), colon,
                                          _parse_color_hex(call.color).val),
                                    right, <<255, 0, 0>>)
                    /\ ink' = [ink EXCEPT !.score = left \cup colon \cup right]
                    /\ drawn' = drawn + 5
                    /\ pc' = "encode"
                    /\ UNCHANGED <<cmd, call, items, num_chars, payload, payload_size,
                                   crc, is_gif, pos, window_index, windows, plan, error>>
    /\ UNCHANGED <<revVars, fnVars, cliVars>>

\* both commands: the canvas is finished and handed to img.save
SbRendered ==
    /\ pc = "encode"
    /\ pc' = "rendered"
    /\ UNCHANGED <<cmd, call, items, num_chars, payload, payload_size, crc,
                   is_gif, pos, window_index, windows, plan, error>>
    /\ UNCHANGED <<revVars, fnVars, sbVars, cliVars>>

InitSb == InitPlan /\ n = 0 /\ rev = -1 /\ rpc = "off" /\ InitFn /\ InitBoard /\ InitCli

NextSb ==
    \/ SetSbTeamsCall
    \/ SetSbScoreCall
    \/ SbDrawNames
    \/ SbDrawSets
    \/ SbDrawScore
    \/ SbRendered

SpecSb == InitSb /\ [][NextSb]_vars

---------------------------------------------------------------------------
(* set_time.py and set_clock_mode.py: the two clock commands.  Each builds  *)
(* its bytes and hands them to single_window_plan.                          *)

\* int(s) for a string of decimal digits; ValueError otherwise
RECURSIVE DecimalValue(_)
DecimalValue(s) ==
    IF s = <<>> THEN 0
    ELSE 10 * DecimalValue(SubSeq(s, 1, Len(s) - 1)) + HexVal(s[Len(s)])

\* date.split("/")
RECURSIVE SplitSlash(_, _)
SplitSlash(s, current) ==
    IF s = <<>> THEN << current >>
    ELSE IF Head(s) = "/" THEN << current >> \o SplitSlash(Tail(s), <<>>)
    ELSE SplitSlash(Tail(s), Append(current, Head(s)))

\* the calendar of datetime: proleptic Gregorian, years 1..9999
IsLeap(year) == year % 4 = 0 /\ (year % 100 # 0 \/ year % 400 = 0)
DaysInMonth(year, month) ==
    IF month = 2 THEN (IF IsLeap(year) THEN 29 ELSE 28)
    ELSE IF month \in {4, 6, 9, 11} THEN 30 ELSE 31
ValidDate(year, month, day) ==
    /\ 1 <= year /\ year <= 9999
    /\ 1 <= month /\ month <= 12
    /\ 1 <= day /\ day <= DaysInMonth(year, month)

RECURSIVE DaysBeforeMonth(_, _)
DaysBeforeMonth(year, month) ==
    IF month <= 1 THEN 0
    ELSE DaysBeforeMonth(year, month - 1) + DaysInMonth(year, month - 1)

\* datetime(year, month, day).toordinal(): 1 for 0001-01-01
Ordinal(year, month, day) ==
    LET y == year - 1
    IN  y * 365 + (y \div 4) - (y \div 100) + (y \div 400)
        + DaysBeforeMonth(year, month) + day

\* datetime(year, month, day).weekday(): Monday is 0
Weekday(year, month, day) == (Ordinal(year, month, day) + 6) % 7

\* "if isinstance(show_date, str): show_date = show_date.lower() in (...)":
\* a flag is a Python bool ("True", "False") or a str given in quotes
FlagValue(flag) ==
    IF flag \in {"True", "False"} THEN flag = "True"
    ELSE flag \in {"'true'", "'1'", "'yes'", "'on'", "'TRUE'", "'Yes'"}

\* the result of a clock command: its bytes, or the exception
Command(bytes) == [err |-> "", val |-> bytes]

\* A plausible slip: the check of the seconds is left out.
set_time_NoSecond(a) ==
    LET hour == IF a.hour = None THEN a.now.hour ELSE The(a.hour)
        minute == IF a.minute = None THEN a.now.minute ELSE The(a.minute)
        second == IF a.second = None THEN a.now.second ELSE The(a.second)
    IN  IF ~(0 <= hour /\ hour <= 23) THEN Raise("ValueError")
        ELSE IF ~(0 <= minute /\ minute <= 59) THEN Raise("ValueError")
        ELSE Command(<< 8, 0, 1, 128, hour, minute, second, 0 >>)

\* def set_time(hour, minute, second) with now standing for datetime.now()
set_time(a) ==
    LET hour == IF a.hour = None THEN a.now.hour ELSE The(a.hour)
        minute == IF a.minute = None THEN a.now.minute ELSE The(a.minute)
        second == IF a.second = None THEN a.now.second ELSE The(a.second)
    IN  IF ~(0 <= hour /\ hour <= 23) THEN Raise("ValueError")
        ELSE IF ~(0 <= minute /\ minute <= 59) THEN Raise("ValueError")
        ELSE IF ~(0 <= second /\ second <= 59) THEN Raise("ValueError")
        ELSE Command(<< 8, 0, 1, 128, hour, minute, second, 0 >>)

\* "Process date" in set_clock_mode: [day, month, year, day_of_week], from
\* now when date is empty, else from date.split("/")
ProcessDate(a) ==
    IF a.date = <<>>
    THEN Ok([day |-> a.now.day, month |-> a.now.month, year |-> a.now.year % 100,
             day_of_week |-> Weekday(a.now.year, a.now.month, a.now.day) + 1])
    ELSE LET parts == SplitSlash(a.date, <<>>)
         IN  IF Len(parts) # 3 \/ \E i \in 1..3 : ~IsDigits(parts[i])
             THEN Raise("ValueError")
             ELSE LET day == DecimalValue(parts[1])
                      month == DecimalValue(parts[2])
                      year == DecimalValue(parts[3])
                  IN  IF ~ValidDate(year, month, day) THEN Raise("ValueError")
                      ELSE Ok([day |-> day, month |-> month, year |-> year,
                               day_of_week |-> Weekday(year, month, day) + 1])

\* def set_clock_mode(style, date, show_date, format_24)
set_clock_mode(a) ==
    LET show_date == FlagValue(a.show_date)
        format_24 == FlagValue(a.format_24)
        processed == ProcessDate(a)
    IN  IF processed.err # "" THEN Raise("ValueError")
        ELSE LET d == processed.val
             IN  IF a.style \notin 0..8 THEN Raise("ValueError")
                 ELSE IF d.day_of_week \notin 1..7 THEN Raise("ValueError")
                 ELSE IF d.year \notin 0..99 THEN Raise("ValueError")
                 ELSE IF d.month \notin 1..12 THEN Raise("ValueError")
                 ELSE IF d.day \notin 1..31 THEN Raise("ValueError")
                 ELSE Command(<< 11, 0, 6, 1 >>
                              \o << a.style % 256,
                                    IF format_24 THEN 1 ELSE 0,
                                    IF show_date THEN 1 ELSE 0 >>
                              \o << d.year % 256, d.month % 256, d.day % 256,
                                    d.day_of_week % 256 >>)

\* what datetime.now() gives: a leap day at midnight, a Monday before noon,
\* the last second of a year
Nows ==
    { [year |-> 2024, month |-> 2, day |-> 29, hour |-> 0, minute |-> 0, second |-> 0],
      [year |-> 2026, month |-> 11, day |-> 2, hour |-> 11, minute |-> 30, second |-> 15],
      [year |-> 1999, month |-> 12, day |-> 31, hour |-> 23, minute |-> 59, second |-> 59] }

\* each field absent, and on both sides of both ends of its range
SetTimeCalls ==
    [hour : {None} \cup { Some(v) : v \in {-1, 0, 23, 24} },
     minute : {None} \cup { Some(v) : v \in {-1, 0, 59, 60} },
     second : {None} \cup { Some(v) : v \in {-1, 0, 59, 60} },
     now : Nows]

\* dates in the documented DD/MM/YYYY form, with two-digit years, with a
\* four-digit year below 100, impossible, and malformed
Dates ==
    { <<>>,
      <<"2", "5", "/", "1", "2", "/", "2", "0", "2", "4">>,
      <<"2", "9", "/", "0", "2", "/", "2", "0", "2", "4">>,
      <<"0", "1", "/", "0", "1", "/", "2", "0", "0", "0">>,
      <<"2", "9", "/", "0", "2", "/", "2", "0", "2", "3">>,
      <<"0", "1", "/", "0", "1", "/", "0", "0", "9", "9">>,
      <<"2", "5", "/", "1", "2", "/", "2", "4">>,
      <<"3", "1", "/", "0", "4", "/", "2", "4">>,
      <<"1", "/", "1", "/", "0">>,
      <<"2", "5", "/", "1", "2">>,
      <<"2", "5", "-", "1", "2", "-", "2", "0", "2", "4">>,
      <<"2", "5", "/", "x", "/", "2", "4">> }

SetClockModeCalls ==
    [style : {-1, 0, 1, 8, 9}, date : Dates,
     show_date : {"True", "False", "'yes'", "'off'"},
     format_24 : {"True", "False", "'TRUE'", "'0'"},
     now : Nows]

\* a clock command from its first line to its return: the bytes go to
\* single_window_plan, which wraps them in the plan's only window
ClockReturn(name, a, result) ==
    /\ cmd' = name /\ call' = a
    /\ IF result.err # ""
       THEN /\ pc' = "raised" /\ error' = result.err
            /\ UNCHANGED <<payload, payload_size, plan>>
       ELSE /\ pc' = "done" /\ error' = ""
            /\ payload' = result.val /\ payload_size' = Len(result.val)
            /\ \E requires_ack \in BOOLEAN :
                  plan' = SendPlan(name, << Window(result.val, requires_ack) >>)
    /\ UNCHANGED <<items, num_chars, crc, is_gif, pos, window_index, windows>>
    /\ UNCHANGED <<revVars, fnVars, sbVars, cliVars>>

SetTimeCall ==
    /\ pc = "idle"
    /\ \E a \in SetTimeCalls : ClockReturn("set_time", a, set_time(a))

SetClockModeCall ==
    /\ pc = "idle"
    /\ \E a \in SetClockModeCalls : ClockReturn("set_clock_mode", a, set_clock_mode(a))

NextClock ==
    \/ SetTimeCall
    \/ SetClockModeCall

SpecClock == Init /\ [][NextClock]_vars

---------------------------------------------------------------------------
(* run_commands, step by step.                                             *)

\* the longest list of commands handed to run_commands
MaxCommands == 3

CommandNames == {"get_device_info", "set_time", "send_text", "bogus"}
CommandLists == UNION { [1..k -> CommandNames] : k \in 0..MaxCommands }

\* command_name = cmd[0] of the command the loop is at
command_name == commands[cmd_index + 1]

\* the loop goes on to the next command, or leaves the session after the last
NextCommand ==
    /\ cmd_index' = cmd_index + 1
    /\ cli' = IF cmd_index + 1 < Len(commands) THEN "loop" ELSE "done"
    /\ UNCHANGED commands

\* async with DeviceSession(address) as session: connected, device info read
RunCommands ==
    /\ cli = "start"
    /\ cli' = IF Len(commands) > 0 THEN "loop" ELSE "done"
    /\ logged' = Append(logged, "info: Device")
    /\ UNCHANGED <<commands, cmd_index, session>>
    /\ UNCHANGED <<planVars, revVars, fnVars, sbVars>>

\* if command_name == "get_device_info": the stored info is logged
LogDeviceInfo ==
    /\ cli = "loop" /\ command_name = "get_device_info"
    /\ logged' = Append(logged, "info: device_info")
    /\ NextCommand
    /\ UNCHANGED session
    /\ UNCHANGED <<planVars, revVars, fnVars, sbVars>>

\* A plausible slip: an unknown name ends the loop.
SkipUnknown_Break ==
    /\ cli = "loop" /\ command_name # "get_device_info" /\ command_name \notin COMMANDS
    /\ logged' = Append(logged, "error: Unknown command")
    /\ cli' = "done"
    /\ UNCHANGED <<commands, cmd_index, session>>
    /\ UNCHANGED <<planVars, revVars, fnVars, sbVars>>

\* else: logger.error("Unknown command"), and on to the next command
SkipUnknown ==
    /\ cli = "loop" /\ command_name # "get_device_info" /\ command_name \notin COMMANDS
    /\ logged' = Append(logged, "error: Unknown command")
    /\ NextCommand
    /\ UNCHANGED session
    /\ UNCHANGED <<planVars, revVars, fnVars, sbVars>>

\* elif command_name in COMMANDS: await session.execute_command(...) begins
ExecuteCommand ==
    /\ cli = "loop" /\ command_name # "get_device_info" /\ command_name \in COMMANDS
    /\ session' = Append(session, [event |-> "start", index |-> cmd_index])
    /\ cli' = "awaiting"
    /\ UNCHANGED <<commands, cmd_index, logged>>
    /\ UNCHANGED <<planVars, revVars, fnVars, sbVars>>

\* the await returns a result: it is logged, and on to the next command
CommandExecuted ==
    /\ cli = "awaiting"
    /\ session' = Append(session, [event |-> "end", index |-> cmd_index])
    /\ logged' = Append(logged, "info: executed")
    /\ NextCommand
    /\ UNCHANGED <<planVars, revVars, fnVars, sbVars>>

\* the await raises (the command rejected its arguments, the link broke):
\* nothing catches it, run_commands ends
CommandRaised ==
    /\ cli = "awaiting"
    /\ session' = Append(session, [event |-> "end", index |-> cmd_index])
    /\ cli' = "raised"
    /\ UNCHANGED <<commands, cmd_index, logged>>
    /\ UNCHANGED <<planVars, revVars, fnVars, sbVars>>

InitRun ==
    /\ InitPlan /\ n = 0 /\ rev = -1 /\ rpc = "off" /\ InitFn /\ InitBoard
    /\ commands \in CommandLists /\ cmd_index = 0 /\ cli = "start"
    /\ session = <<>> /\ logged = <<>>

NextRun ==
    \/ RunCommands
    \/ LogDeviceInfo
    \/ SkipUnknown
    \/ ExecuteCommand
    \/ CommandExecuted
    \/ CommandRaised

SpecRun == InitRun /\ [][NextRun]_vars

---------------------------------------------------------------------------
(* Reading a window back: the 2-byte prefix, the 13-byte frame header      *)
(* (3 type bytes, 4 size bytes, 4 crc bytes, 2 tail bytes), the slice.     *)

Prefix(w) == SubSeq(w.data, 1, 2)
OptionByte(w) == w.data[5]
SizeBytes(w) == SubSeq(w.data, 6, 9)
CrcBytes(w) == SubSeq(w.data, 10, 13)
Slice(w) == SubSeq(w.data, 16, Len(w.data))

RECURSIVE SumSliceLens(_)
SumSliceLens(ws) == IF ws = <<>> THEN 0 ELSE Len(Slice(Head(ws))) + SumSliceLens(Tail(ws))

\* a call has returned its plan
Returned == pc = "done"

\* ceil(a / b)
CeilDiv(a, b) == (a + b - 1) \div b

---------------------------------------------------------------------------
(* The claims.                                                             *)

\* C1: for any payload P that send_text or send_image splits into windows,
\* the lengths of the windows' slices sum to len(P), and the CRC field of
\* every window's header is crc32(P) of the whole payload, 4 bytes
\* little-endian.
C1_SlicesSumAndCrc ==
    Returned =>
        /\ SumSliceLens(plan.windows) = Len(payload)
        /\ LET c == crc32(payload)
           IN  \A i \in 1..Len(plan.windows) :
                 CrcBytes(plan.windows[i])
                   = << c.lo % 256, c.lo \div 256, c.hi % 256, c.hi \div 256 >>

\* a text plan of two windows whose payload is one byte more than a window
C1_Witness ==
    /\ Returned /\ cmd = "send_text"
    /\ Len(payload) = window_size + 1
    /\ Len(plan.windows) = 2
    /\ CrcBytes(plan.windows[1]) = CrcBytes(plan.windows[2])

\* C2: in every payload built by send_text the item-count byte equals the
\* number of item blocks concatenated after the property header, in both
\* encoding paths and also when emoji or characters are skipped (the count
\* byte is followed by the 13 property bytes, then the blocks).
C2_CountMatchesItems ==
    (Returned /\ cmd = "send_text") =>
        /\ payload[1] = Len(items)
        /\ SubSeq(payload, 15, Len(payload)) = Concat(items)

\* C3: no window carries a slice longer than 12288 bytes (nor a wire length
\* above prefix + header + 12288), and every window but the last carries
\* exactly 12288 bytes.
C3_SliceBound ==
    Returned =>
        \A i \in 1..Len(plan.windows) :
            /\ Len(Slice(plan.windows[i])) <= 12288
            /\ Len(plan.windows[i].data) <= 2 + 13 + 12288
            /\ i < Len(plan.windows) => Len(Slice(plan.windows[i])) = 12288

\* an image plan of three windows, the last one shorter than the boundary
C3_Witness ==
    /\ Returned /\ cmd = "send_image"
    /\ Len(plan.windows) = 3
    /\ Len(Slice(plan.windows[2])) = 12288
    /\ Len(Slice(plan.windows[3])) < 12288

FirstOptions(ws) == { i \in 1..Len(ws) : OptionByte(ws[i]) = 0 }

C6_TotalLength ==
    Returned =>
        \A i \in 1..Len(plan.windows) :
            LET f == SizeBytes(plan.windows[i])
            IN  /\ Len(f) = 4
                /\ \A k \in 1..4 : f[k] \in 0..255
                /\ f[1] + 256 * f[2] + 65536 * f[3] + 16777216 * f[4] = Len(payload)

\* a plan whose last window carries less than the whole payload
C6_Witness ==
    /\ Returned
    /\ Len(plan.windows) = 2
    /\ Len(Slice(plan.windows[2])) < Len(payload)
    /\ SizeBytes(plan.windows[2]) = SizeBytes(plan.windows[1])

\* C7: every window's first two bytes are the little-endian value
\* (header bytes + slice bytes + 2), the length of the window message
\* itself, and it fits in 16 bits.
C7_LengthPrefix ==
    Returned =>
        \A i \in 1..Len(plan.windows) :
            LET w == plan.windows[i]
                value == Prefix(w)[1] + 256 * Prefix(w)[2]
            IN  /\ value = 13 + Len(Slice(w)) + 2
                /\ value = Len(w.data)
                /\ Len(w.data) < 65536

\* a full window: 12288 slice bytes, a prefix of 12303 = 0x300F
C7_Witness ==
    /\ Returned
    /\ Len(plan.windows) >= 1
    /\ Len(Slice(plan.windows[1])) = 12288
    /\ Prefix(plan.windows[1]) = <<15, 48>>

\* C8: every window of every plan of send_text and send_image is marked
\* requires_ack = True, whatever the input.
C8_RequiresAck ==
    /\ \A i \in 1..Len(windows) : windows[i].requires_ack = TRUE
    /\ \A i \in 1..Len(plan.windows) : plan.windows[i].requires_ack = TRUE

\* a returned plan with continuation windows, all of them acknowledged
C8_Witness ==
    /\ Returned /\ cmd = "send_text"
    /\ Len(plan.windows) = 3
    /\ plan.windows[3].requires_ack

\* C9: for all 16-bit values x, _reverse_bits_16(_reverse_bits_16(x)) = x,
\* and _reverse_bits_16(x) is a 16-bit value whose bit i is bit 15 - i of x.
C9_ReverseInvolution ==
    rpc = "done" =>
        /\ rev \in Word16
        /\ _reverse_bits_16(rev) = n
        /\ \A i \in 0..15 : Bit(rev, i) = Bit(n, 15 - i)

\* 0x0001 reversed is 0x8000
C9_Witness == rpc = "done" /\ n = 1 /\ rev = 32768

\* send_text's validation lets the call through to the encoders
Validated(a) ==
    /\ ~(a.char_height = None /\ a.device_info = None)
    /\ ColorBytes(a.color).err = ""
    /\ ChecksPass(a, CharHeight(a))
    /\ ~AnimationRejected(a)
    /\ Background(a.bg_color).err = ""

\* the packed buffers the encoders hand to the bit-reversal pass: one per
\* rendered plain character (fixed width), one per chunk of every run
\* (variable width, when every run renders)
FedBuffers(a) ==
    IF a.var_width
    THEN IF \E i \in 1..Len(a.text) : a.text[i] = "Q" THEN {}
         ELSE LET segs == Segments(a.text, <<>>)
              IN  UNION { { _encode_char_img(c) :
                              c \in { _render_text_segment_to_chunks(
                                         segs[i].content, CharHeight(a),
                                         ChunkWidth(CharHeight(a))).val[k] :
                                      k \in 1..Len(_render_text_segment_to_chunks(
                                                 segs[i].content, CharHeight(a),
                                                 ChunkWidth(CharHeight(a))).val) } } :
                          i \in { j \in 1..Len(segs) : segs[j].type = "text" } }
    ELSE { The(_char_to_hex(a.text[i], CharHeight(a))) :
             i \in { j \in 1..Len(a.text) :
                       /\ ~is_emoji(a.text[j])
                       /\ _char_to_hex(a.text[j], CharHeight(a)) # None } }

OddBuffers(a) == { b \in FedBuffers(a) : Len(b) % 2 # 0 }

\* C10: the bit-order reversal pass rejects an input whose length is not a
\* multiple of 2 bytes with an error, and the error is fatal to the encode:
\* it propagates out of send_text and no SendPlan is produced (the glyph is
\* not skipped).
C10_OddBufferFatal ==
    (pc # "idle" /\ cmd = "send_text" /\ Validated(call) /\ OddBuffers(call) # {}) =>
        /\ \A b \in OddBuffers(call) :
              _logic_reverse_bits_order_bytes(b).err = "ValueError"
        /\ pc = "raised" /\ error = "ValueError"
        /\ plan = NoPlan /\ windows = <<>>

\* a variable-width call at height 15: the 8-pixel chunks pack to 15 bytes
C10_Witness ==
    /\ pc = "raised" /\ cmd = "send_text"
    /\ call.var_width /\ CharHeight(call) = 15 /\ call.text = <<"A", "E">>
    /\ Validated(call) /\ OddBuffers(call) # {}

\* the word size _encode_char_img chooses for a width
WordBytes(w) == IF w <= 8 THEN 1 ELSE IF w <= 16 THEN 2 ELSE IF w <= 24 THEN 3 ELSE 4

\* bit b (0 = least significant) of the big-endian k-byte word of row y
WordBit(bytes, k, y, b) == Bit(bytes[(y - 1) * k + (k - 1 - (b \div 8)) + 1], b % 8)

\* the pixel at column x of row y (1-based) is on
PixelOn(img, x, y) == img.rows[y][x + 1] > 0

\* the call of _encode_char_img has returned or raised
Packed == fn = "_encode_char_img" /\ ret # Pending

\* C11, as stated: _encode_char_img packs a W x H image into H big-endian
\* words of k bytes (k = 1, 2, 3 for W <= 8, 16, 24 and 4 for W > 24); the
\* pixel at column x is on exactly when bit 8k - 1 - x of the row's word is
\* set, every other bit is 0, and the output has H * k bytes.
C11_Original ==
    Packed =>
        LET k == WordBytes(arg.width)
        IN  /\ ret.err = ""
            /\ Len(ret.val) = arg.height * k
            /\ \A y \in 1..arg.height :
                 /\ \A x \in 0..(arg.width - 1) :
                      PixelOn(arg, x, y) <=>
                          (8 * k - 1 - x >= 0 /\ WordBit(ret.val, k, y, 8 * k - 1 - x) = 1)
                 /\ \A b \in 0..(8 * k - 1) :
                      (8 * k - 1 - b >= arg.width) => WordBit(ret.val, k, y, b) = 0

\* C11, amended: for W <= 32 _encode_char_img packs a W x H image into H
\* big-endian words of k bytes (k = 1, 2, 3, 4 for W <= 8, 16, 24, 32); the
\* pixel at column x is on exactly when bit 8k - 1 - x of the row's word is
\* set, every other bit is 0, and the output has H * k bytes.  For W > 32
\* the call raises ValueError when a pixel at column 32 or beyond is on, and
\* otherwise packs columns 0..31 into 4-byte words.
C11_PackedRows ==
    Packed =>
        LET k == WordBytes(arg.width)
            cols == IF arg.width <= 32 THEN arg.width ELSE 32
            inkBeyond == \E y \in 1..arg.height : \E x \in 32..(arg.width - 1) :
                            PixelOn(arg, x, y)
        IN  IF inkBeyond THEN ret = Raise("ValueError")
            ELSE /\ ret.err = ""
                 /\ Len(ret.val) = arg.height * k
                 /\ \A i \in 1..Len(ret.val) : ret.val[i] \in 0..255
                 /\ \A y \in 1..arg.height : \A b \in 0..(8 * k - 1) :
                      WordBit(ret.val, k, y, b) = 1 <=>
                          (8 * k - 1 - b < cols /\ PixelOn(arg, 8 * k - 1 - b, y))

\* a 17-column image with its rightmost pixel on in the second row: 3-byte
\* words, bit 23 - 16 = 7 of the second word
C11_Witness ==
    /\ Packed /\ arg.width = 17 /\ arg.height = 2
    /\ PixelOn(arg, 16, 2) /\ ~PixelOn(arg, 0, 1)
    /\ ret = Ok(<<0, 0, 0, 0, 0, 128>>)

\* the height class send_text gives a character height: up to 20 rows the
\* narrow 16-row class (8-pixel chunks), above 20 the tall 32-row class
\* (16-pixel chunks)
HeightClass(h) == IF h <= 20 THEN 16 ELSE 32

\* the call of _encode_character_block has returned
BlockBuilt == fn = "_encode_character_block" /\ ret # Pending

\* the header layout of an item block, whatever its tag
BlockLayout ==
    BlockBuilt =>
        /\ ret.err = ""
        /\ SubSeq(ret.val, 5, Len(ret.val)) = arg.char_bytes
        /\ IF arg.is_emoji
           THEN /\ ret.val[1] \in {8, 9}
                /\ ret.val[2] + 256 * ret.val[3] = Len(arg.char_bytes)
                /\ ret.val[2] \in 0..255 /\ ret.val[3] \in 0..255
                /\ ret.val[4] = 0
           ELSE /\ ret.val[1] \in {0, 2}
                /\ SubSeq(ret.val, 2, 4) = arg.color_bytes

\* C12: _encode_character_block emits a 4-byte item header followed by the
\* data unchanged: for a bitmap tag 0x00 (height class 16) or 0x02 (height
\* class 32) and the 3 color bytes, for an emoji tag 0x08 (class 16) or 0x09
\* (class 32), the JPEG length as 2 bytes little-endian and a reserved 0x00;
\* the length field equals the number of JPEG bytes that follow and the tag
\* always matches the declared height class.
C12_BlockHeader ==
    /\ BlockLayout
    /\ BlockBuilt =>
          ret.val[1] = (IF HeightClass(arg.text_size) = 16
                        THEN (IF arg.is_emoji THEN 8 ELSE 0)
                        ELSE (IF arg.is_emoji THEN 9 ELSE 2))

\* C13: send_text rejects animation ids 3 and 4 with a ValueError
\* unconditionally, for every device size (32x32 included) and without
\* device_info: such a call never returns a SendPlan.
C13_AnimationRejected ==
    (cmd = "send_text" /\ pc # "idle" /\ call.animation \in {3, 4}) =>
        /\ pc = "raised" /\ error = "ValueError"
        /\ plan = NoPlan

\* a color argument that is exactly 3 bytes of hex
IsColor(c) == Len(c) = 6 /\ \A i \in 1..6 : IsHex(c[i])

\* the value of a color argument that is one
ColorValue(c) == [i \in 1..3 |-> 16 * HexVal(c[2 * i - 1]) + HexVal(c[2 * i])]

\* one of the conditions C14 lists holds of the call
OutOfRange(a) ==
    \/ a.rainbow_mode < 0 \/ a.rainbow_mode > 9
    \/ a.animation < 0 \/ a.animation > 7
    \/ a.speed < 0 \/ a.speed > 100
    \/ a.save_slot < 0 \/ a.save_slot > 255
    \/ Len(a.text) < 1 \/ Len(a.text) > 500
    \/ (a.char_height = None /\ a.device_info = None)
    \/ (a.char_height # None /\ (The(a.char_height) < 1 \/ The(a.char_height) > 128))
    \/ (a.char_height = None /\ a.device_info # None
          /\ (CharHeight(a) < 1 \/ CharHeight(a) > 128))
    \/ ~IsColor(a.color)
    \/ (a.bg_color # None /\ ~IsColor(The(a.bg_color)))

C15_FailFast ==
    /\ (cmd = "send_text" /\ pc = "raised" /\ ~Validated(call)) => items = <<>>
    /\ (cmd \in {"set_sb_teams", "set_sb_score"} /\ pc = "raised") => drawn = 0

\* C16: with animation 2 (right to left) the item blocks of the payload are
\* exactly the blocks of the same call sent left to right, in reverse order,
\* each block byte for byte the same, in the fixed-width and in the
\* variable-width path.
C16_ReversedBlocks ==
    (cmd = "send_text" /\ pc \in {"framing", "done"} /\ call.animation = 2) =>
        LET ltr == Characters([call EXCEPT !.animation = 0], CharHeight(call))
            count == Len(items)
        IN  /\ ltr.err = ""
            /\ count = Len(ltr.val)
            /\ \A i \in 1..count : items[i] = ltr.val[count + 1 - i]
            /\ SubSeq(payload, 15, payload_size) = Concat(items)

\* a right-to-left call of the variable-width path has returned a plan whose
\* first and last blocks differ
C16_Witness ==
    /\ cmd = "send_text" /\ pc = "done" /\ call.animation = 2 /\ call.var_width
    /\ Len(items) >= 2 /\ items[1] # items[Len(items)]
    /\ Len(plan.windows) = 1

\* an emoji of the running call for which the provider gives nothing
ProviderFails(c) == is_emoji(c) /\ _emoji_to_hex(c, call.emoji_len) = None
Provided(c) == ~ProviderFails(c)
ProvidedSegment(seg) == ~(seg.type = "emoji" /\ ProviderFails(seg.content[1]))

\* the blocks of every token of the running call but the failing emoji: the
\* characters one by one in the fixed-width path, the text runs (as the call
\* splits them) and the emoji in the variable-width path
OtherBlocks ==
    LET h == CharHeight(call)
        color_bytes == ColorBytes(call.color).val
    IN  IF call.var_width
        THEN LET segments == SelectSeq(Segments(call.text, <<>>), ProvidedSegment)
                 blocks == Collect([i \in 1..Len(segments) |->
                              SegmentItems(segments[i], h, color_bytes,
                                           ChunkWidth(h), call.emoji_len)])
             IN  IF blocks.err = "" /\ call.animation = 2
                 THEN Ok([i \in 1..Len(blocks.val) |->
                            blocks.val[Len(blocks.val) + 1 - i]])
                 ELSE blocks
        ELSE _encode_text(SelectSeq(call.text, Provided), h, call.color,
                          call.animation = 2, call.emoji_len)

SerialByte(w) == w.data[2 + 3 + 4 + 4 + 2]

\* C18: in the plan of an image command, static or animated, the serial byte
\* in the header tail of the first window differs from the serial byte of
\* every continuation window.
C18_SerialDiffers ==
    (cmd = "send_image" /\ pc = "done") =>
        \A i \in 2..Len(plan.windows) :
            SerialByte(plan.windows[i]) # SerialByte(plan.windows[1])

\* the columns of the scoreboard regions on a matrix of the given width
NameColumns(width) == (0..4) \cup ((width - 5)..(width - 1))
SetsColumns(width) == (6..8) \cup ((width - 9)..(width - 7))
CenterColumns(width) == 8..(width - 9)

\* C19: on every matrix set_sb_score accepts (width >= 10, height >= 16) the
\* names are drawn in columns 0..4 and width-5..width-1, the sets digits in
\* their 3-column bands, the score inside the center region, and the score
\* writes no pixel of the name regions or of the sets bands.
C19_ScoreRegions ==
    (cmd = "set_sb_score" /\ pc \in {"encode", "rendered"}) =>
        /\ \A p \in ink.names : p[1] \in NameColumns(SbWidth)
        /\ \A p \in ink.sets : p[1] \in SetsColumns(SbWidth)
        /\ \A p \in ink.score :
              /\ p[1] \in CenterColumns(SbWidth)
              /\ p[1] \notin NameColumns(SbWidth)
              /\ p[1] \notin SetsColumns(SbWidth)

\* the whole picture lies inside the image, centered: letterboxed
Letterboxed(image) ==
    /\ image.picture.x >= 0 /\ image.picture.y >= 0
    /\ image.picture.x + image.picture.width <= image.width
    /\ image.picture.y + image.picture.height <= image.height
    /\ image.picture.width = image.width \/ image.picture.height = image.height

\* the picture covers the whole image, its excess cut off on both sides
CenterCropped(image) ==
    /\ image.picture.x <= 0 /\ image.picture.y <= 0
    /\ image.picture.x + image.picture.width >= image.width
    /\ image.picture.y + image.picture.height >= image.height
    /\ image.picture.width = image.width \/ image.picture.height = image.height

\* C20: the resize policy asked for is the one applied, to static and to
\* animated images alike: 'fit' letterboxes, 'crop' center-crops, and the
\* result is exactly the device's width x height.
C20_PolicyApplied ==
    (fn = "_resize_image" /\ ret # Pending) =>
        /\ ret.err = ""
        /\ ret.val.image.width = arg.target[1]
        /\ ret.val.image.height = arg.target[2]
        /\ arg.fit_mode = ResizeMethod.FIT => Letterboxed(ret.val.image)
        /\ arg.fit_mode = ResizeMethod.CROP => CenterCropped(ret.val.image)

\* a date of the running set_clock_mode call in the documented DD/MM/YYYY
\* form that names a day of the calendar
DocumentedDate ==
    /\ Len(call.date) = 10 /\ call.date[3] = "/" /\ call.date[6] = "/"
    /\ IsDigits(SubSeq(call.date, 1, 2)) /\ IsDigits(SubSeq(call.date, 4, 5))
    /\ IsDigits(SubSeq(call.date, 7, 10))
    /\ ValidDate(DecimalValue(SubSeq(call.date, 7, 10)),
                 DecimalValue(SubSeq(call.date, 4, 5)),
                 DecimalValue(SubSeq(call.date, 1, 2)))

\* C21: for every valid calendar date written DD/MM/YYYY, set_clock_mode
\* (with a style in range) returns a command instead of raising, and the
\* date bytes are the year, the month, the day and the weekday (1..7) of
\* that date.
C21_DocumentedDateAccepted ==
    (cmd = "set_clock_mode" /\ pc # "idle" /\ call.style \in 0..8 /\ DocumentedDate) =>
        LET day == DecimalValue(SubSeq(call.date, 1, 2))
            month == DecimalValue(SubSeq(call.date, 4, 5))
            year == DecimalValue(SubSeq(call.date, 7, 10))
        IN  /\ pc = "done"
            /\ SubSeq(payload, 8, 11) =
                  << year % 100, month, day, Weekday(year, month, day) + 1 >>

\* a field of the running set_time call, the clock's when it is not given
TimeField(given, now_value) == IF given = None THEN now_value ELSE The(given)

\* C22: set_time raises ValueError exactly when the hour is outside 0..23,
\* the minute outside 0..59 or the second outside 0..59, and set_clock_mode
\* raises when the style is outside 0..8; for every accepted call the first
\* byte is the number of bytes of the command (8 and 11) and every parameter
\* byte lies in its range.
C22_ClockCommands ==
    /\ (cmd = "set_time" /\ pc # "idle") =>
          LET hour == TimeField(call.hour, call.now.hour)
              minute == TimeField(call.minute, call.now.minute)
              second == TimeField(call.second, call.now.second)
              in_range == /\ hour \in 0..23 /\ minute \in 0..59 /\ second \in 0..59
          IN  /\ pc = "raised" <=> ~in_range
              /\ pc = "raised" => error = "ValueError"
              /\ pc = "done" =>
                    /\ Len(payload) = 8 /\ payload[1] = 8
                    /\ payload[5] = hour /\ payload[6] = minute /\ payload[7] = second
                    /\ plan.name = "set_time" /\ Len(plan.windows) = 1
                    /\ plan.windows[1].data = payload
    /\ (cmd = "set_clock_mode" /\ pc # "idle") =>
          /\ call.style \notin 0..8 => (pc = "raised" /\ error = "ValueError")
          /\ pc = "done" =>
                /\ Len(payload) = 11 /\ payload[1] = 11
                /\ payload[5] = call.style /\ payload[5] \in 0..8
                /\ payload[6] \in 0..1 /\ payload[7] \in 0..1
                /\ payload[8] \in 0..99 /\ payload[9] \in 1..12
                /\ payload[10] \in 1..31 /\ payload[11] \in 1..7
                /\ plan.name = "set_clock_mode" /\ Len(plan.windows) = 1
                /\ plan.windows[1].data = payload

\* set_time has returned the command of the last second of a day
C22_Witness ==
    /\ cmd = "set_time" /\ pc = "done"
    /\ call.second = Some(59)
    /\ payload = << 8, 0, 1, 128, 23, 59, 59, 0 >>

\* C23: _get_char_height_from_device returns 8 for a device of height <= 8,
\* 16 for heights 9..20 and 32 for heights above 20: always 8, 16 or 32.
C23_CharHeightClasses ==
    (fn = "_get_char_height_from_device" /\ ret.err = "") =>
        /\ ret.val = (IF arg.height <= 8 THEN 8
                      ELSE IF arg.height <= 20 THEN 16 ELSE 32)
        /\ ret.val \in {8, 16, 32}

\* the commands of the list the session is to execute: those in the
\* registry, get_device_info excepted
Executable(k) == commands[k + 1] # "get_device_info" /\ commands[k + 1] \in COMMANDS

\* what the session sees when every command from index k on has been dealt
\* with: each executable command started and ended, in list order
RECURSIVE InListOrder(_)
InListOrder(k) ==
    IF k >= Len(commands) THEN <<>>
    ELSE (IF Executable(k)
          THEN << [event |-> "start", index |-> k], [event |-> "end", index |-> k] >>
          ELSE <<>>) \o InListOrder(k + 1)

\* C24: run_commands executes the commands in list order, one at a time: the
\* session is never asked to start a command before the one before it has
\* ended; an unknown name is logged and skipped and the commands after it
\* still run; get_device_info never reaches the session.
C24_InOrderOneAtATime ==
    (cli # "off") =>
        /\ Len(session) <= Len(InListOrder(0))
        /\ session = SubSeq(InListOrder(0), 1, Len(session))
        /\ (Len(session) % 2 = 1) <=> (cli = "awaiting")
        /\ \A e \in 1..Len(session) :
              commands[session[e].index + 1] # "get_device_info"
        /\ cli = "done" =>
              /\ session = InListOrder(0)
              /\ Cardinality({ e \in 1..Len(logged) : logged[e] = "error: Unknown command" })
                   = Cardinality({ k \in 0..(Len(commands) - 1) :
                                     commands[k + 1] \notin COMMANDS \cup {"get_device_info"} })

\* a run has ended in which an unknown name and get_device_info came before
\* a command that was executed
C24_Witness ==
    /\ cli = "done" /\ Len(commands) = 3
    /\ commands[1] = "bogus" /\ commands[2] = "get_device_info"
    /\ commands[3] = "set_time"
    /\ session = << [event |-> "start", index |-> 2], [event |-> "end", index |-> 2] >>

\* C25: the chunk width is 8 for character heights <= 20 and 16 above; a
\* strip W wide is cut into ceil(W / chunk_width) chunks, each exactly
\* chunk_width wide, chunk i holding the strip's columns from i * chunk_width
\* on in order, and only columns past the strip's end (in the last chunk, on
\* its right) are off pixels: the chunks side by side, padding dropped, are
\* the strip.
C25_ChunksTileTheStrip ==
    (fn = "_split_image_into_chunks" /\ ret.err = "") =>
        LET chunk_width == IF arg.char_height <= 20 THEN 8 ELSE 16
            W == arg.img.width
            chunks == ret.val
        IN  /\ Len(chunks) * chunk_width >= W
            /\ (Len(chunks) - 1) * chunk_width < W
            /\ \A i \in 0..(Len(chunks) - 1) :
                  /\ chunks[i + 1].width = chunk_width
                  /\ chunks[i + 1].height = arg.img.height
                  /\ \A y \in 1..arg.img.height : \A x \in 0..(chunk_width - 1) :
                        chunks[i + 1].rows[y][x + 1] =
                          (IF i * chunk_width + x < W
                           THEN arg.img.rows[y][i * chunk_width + x + 1] ELSE 0)

\* a strip of 17 columns has been cut into three chunks of 8, the last one
\* holding its last column and seven off pixels
C25_Witness ==
    /\ fn = "_split_image_into_chunks" /\ ret.err = ""
    /\ arg.img = StripImage(17, 1, 0) /\ arg.char_height = 16
    /\ Len(ret.val) = 3
    /\ ret.val[3].rows[1] = << (17 * 7 + 3) % 256, 0, 0, 0, 0, 0, 0, 0 >>

\* a byte with its eight bits in the opposite order
MirrorByte(b) ==
    128 * (b % 2) + 64 * ((b \div 2) % 2) + 32 * ((b \div 4) % 2)
    + 16 * ((b \div 8) % 2) + 8 * ((b \div 16) % 2) + 4 * ((b \div 32) % 2)
    + 2 * ((b \div 64) % 2) + ((b \div 128) % 2)

\* C26: on a byte string of even length _logic_reverse_bits_order_bytes
\* returns a string of the same length whose every byte is the input byte at
\* the same position with its bits reversed (the bytes of a 2-byte chunk
\* keep their order), and the pass applied twice gives the input back.
C26_BytesMirroredInPlace ==
    (fn = "_logic_reverse_bits_order_bytes" /\ ret.err # "pending" /\ Len(arg) % 2 = 0) =>
        /\ ret.err = ""
        /\ Len(ret.val.once) = Len(arg)
        /\ \A i \in 1..Len(arg) : ret.val.once[i] = MirrorByte(arg[i])
        /\ ret.val.twice.err = ""
        /\ ret.val.twice.val = arg

\* the pass has turned 01 FE 07 01 into 80 7F E0 80, and back
C26_Witness ==
    /\ fn = "_logic_reverse_bits_order_bytes" /\ ret.err = ""
    /\ arg = << 1, 254, 7, 1 >>
    /\ ret.val.once = << 128, 127, 224, 128 >>
    /\ ret.val.twice.val = arg

\* the windows built so far carry, in order, the payload bytes from 0 up to
\* the loop's offset: window i the bytes [i * 12288, min((i + 1) * 12288, len))
SlicesInOrder ==
    /\ \A i \in 0..(Len(windows) - 1) :
          Slice(windows[i + 1]) =
            SubSeq(payload, i * 12288 + 1,
                   IF (i + 1) * 12288 < Len(payload) THEN (i + 1) * 12288
                   ELSE Len(payload))
    /\ Concat([i \in 1..Len(windows) |-> Slice(windows[i])]) = SubSeq(payload, 1, pos)

\* one iteration of a windowing loop moves the offset forward, not past the
\* end of the payload
OffsetGrows ==
    (pc = "framing" /\ windows' # windows) =>
        (pos' > pos /\ pos' <= Len(payload) /\ Len(windows') = Len(windows) + 1)

\* C27: the windows of a plan come in ascending payload order and their
\* slices are contiguous and do not overlap: window i carries exactly the
\* payload bytes [i * 12288, min((i + 1) * 12288, len(P))), so the slices in
\* plan order are P; the loop ends for every payload because each iteration
\* moves the offset forward.
C27_SlicesInOrderLoopEnds ==
    /\ [](pc \in {"framing", "done"} => SlicesInOrder)
    /\ [](pc = "done" => (plan.windows = windows /\ pos = Len(payload)))
    /\ [][OffsetGrows]_vars
    /\ (pc = "framing") ~> (pc = "done")

\* a text plan of three windows has been returned
C27_Witness ==
    /\ pc = "done" /\ cmd = "send_text"
    /\ Len(plan.windows) = 3
    /\ Len(payload) > 2 * 12288
    /\ Slice(plan.windows[3]) = SubSeq(payload, 2 * 12288 + 1, Len(payload))

\* C28: for every input that passes send_text's validation (text length
\* 1..500) the number of items to declare fits the one item-count byte
\* (0..255), so building the payload does not fail once validation and the
\* encoding of the items have succeeded.
C28_CountFitsOneByte ==
    (cmd = "send_text" /\ pc # "idle" /\ Validated(call)
       /\ Characters(call, CharHeight(call)).err = "") =>
        /\ NumChars(call, Characters(call, CharHeight(call)).val) <= 255
        /\ pc # "raised"

\* C29: every SendPlan returned by send_text or send_image has at least one
\* window and its first window has option 0x00; no accepted input, an image
\* file of zero bytes included, yields a plan with an empty window list.
C29_PlanNeverEmpty ==
    (Returned /\ cmd \in {"send_text", "send_image"}) =>
        /\ Len(plan.windows) >= 1
        /\ OptionByte(plan.windows[1]) = 0

\* C30: for every character height send_text's validation accepts (1..128)
\* and every glyph or chunk width the rasterizer produces, the packed bitmap
\* has an even number of bytes, so the bit-reversal pass never raises on a
\* buffer the encoder itself produced.
C30_EncoderBuffersEven ==
    (cmd = "send_text" /\ pc # "idle" /\ Validated(call)) =>
        \A b \in FedBuffers(call) :
            /\ Len(b) % 2 = 0
            /\ _logic_reverse_bits_order_bytes(b).err = ""

====
